---- MODULE Spec2Model ----
(***************************************************************************)
(* Model of the task scheduler of the improvement engine                    *)
(* (src/src/improvement_engine/continuous_improvement_engine.py) and of the *)
(* four-stage optimization cycle (.../optimization_runner.py).              *)
(*                                                                          *)
(* The engine runs on one asyncio event loop: a coroutine runs without      *)
(* interruption from one suspension point (an await that really suspends)   *)
(* to the next, so every action below is one such uninterrupted stretch of  *)
(* code.  Time is counted in minutes; the poll loop sleeps 60 s = 1 minute. *)
(***************************************************************************)
EXTENDS Integers, Sequences, FiniteSets, TLC

VARIABLES
    now,        \* datetime.utcnow(), in minutes
    nticks,     \* number of clock advances so far (bounds the run)
    discord,    \* self.discord is set (a notifier is attached)
    tasks,      \* self.tasks: the registry, task ids in insertion order
    task,       \* the OptimizationTask objects, by task id
    running,    \* self.running
    loops,      \* position of every start() coroutine
    execs,      \* the _execute_task coroutines: execs[t][pc] = how many of task t are at pc
    dispatched, \* per task: number of _execute_task coroutines created so far
    disabled_calls, \* per task: number of notify_task_disabled calls made so far
    added_at,   \* per task: the time of the last add_task call for it (None: never added)
    db,         \* ids with a persisted record (upserted and not deleted)
    last,       \* the code block that ran in the last step, its task, the notifier call it
                \* made, the task it persisted (0: none), the task id it returned (0: none)
    cycles,     \* the run_full_cycle coroutines of the OptimizationRunner
    results_history, \* OptimizationRunner.results_history
    analyzer    \* a PerformanceAnalyzer and its analyze_recent_performance call

engine_vars == <<now, nticks, tasks, task, running, loops, execs,
                 dispatched, disabled_calls, added_at, db, last>>

vars == <<now, nticks, discord, tasks, task, running, loops, execs,
          dispatched, disabled_calls, added_at, db, last, cycles, results_history,
          analyzer>>

(* ------------------------------ bounds --------------------------------- *)

NTasks == 2
MaxStarts == 2
MaxTicks == 3
MaxFailTicks == 6
\* longest series of snapshots _get_historical_snapshots returns
MaxSnapshots == 8
\* run_full_cycle calls made on one OptimizationRunner
NRuns == 2

TaskIds == 1..NTasks
\* the tasks the caller adds in the runs of Spec; the others are never added
Scheduled == {1}
Loops == 1..MaxStarts
\* the start() calls made in the runs of Spec
Pollers == {1}

(* ------------------------- program constants --------------------------- *)

None == -1

MinuteOffset == 1
HourlyOffset == 60
DailyOffset == 1440
WeeklyOffset == 10080
FailureLimit == 5

Frequencies == {"hourly", "daily", "weekly", "minute", "other"}

PENDING == "pending"
RUNNING == "running"
COMPLETED == "completed"
FAILED == "failed"
TaskStatus == {PENDING, RUNNING, COMPLETED, FAILED}

\* positions of an _execute_task coroutine
ExecPCs == {"created", "n_started", "handler", "n_completed", "n_failed", "n_disabled"}
\* notifier calls: last.emit names the one made in the last step
Kinds == {"engine_started", "task_added", "task_removed",
          "task_started", "task_completed", "task_failed", "task_disabled"}

\* priority: int = 5
DefaultPriority == 5

\* an OptimizationTask as the caller constructs it: frequency f, c consecutive
\* failures carried over (0 by default), the other fields at their defaults
\* (task_id, task_type and component_id have none: placeholders here);
\* handled tells whether _task_handlers holds a handler for its task_type
OptimizationTask(f, c, h) ==
    [task_id |-> 0,
     task_type |-> "hyperparameter",
     component_id |-> "component",
     frequency |-> f,
     priority |-> DefaultPriority,
     config |-> <<>>,
     handled |-> h,
     last_run_at |-> None,
     next_run_at |-> None,
     status |-> PENDING,
     last_result |-> "none",
     last_error |-> "none",
     consecutive_failures |-> c,
     enabled |-> TRUE]

(* ------------------------------ helpers -------------------------------- *)

\* _calculate_next_run with timedelta(days=1) for timedelta(weeks=1)
CalculateNextRun_WeekIsDay(f, n) ==
    IF f = "hourly" THEN n + HourlyOffset
    ELSE IF f = "minute" THEN n + MinuteOffset
    ELSE n + DailyOffset

\* _calculate_next_run(frequency), called at time n
CalculateNextRun(f, n) ==
    IF f = "hourly" THEN n + HourlyOffset
    ELSE IF f = "daily" THEN n + DailyOffset
    ELSE IF f = "weekly" THEN n + WeeklyOffset
    ELSE IF f = "minute" THEN n + MinuteOffset
    ELSE n + DailyOffset

InRegistry(t) == \E i \in 1..Len(tasks) : tasks[i] = t

RECURSIVE SumPC(_, _)
SumPC(f, S) ==
    IF S = {} THEN 0
    ELSE LET p == CHOOSE x \in S : TRUE IN f[p] + SumPC(f, S \ {p})

\* executions of t between "status = running" and the final persist
InFlight(t) == SumPC(execs[t], ExecPCs \ {"created"})

\* coroutines created and not yet started
Created == {t \in TaskIds : execs[t]["created"] > 0}

Move(t, from, to) ==
    [execs EXCEPT ![t][from] = @ - 1, ![t][to] = @ + 1]
Finish(t, from) ==
    [execs EXCEPT ![t][from] = @ - 1]
\* the step ran code block o for task t (0: no task) and made notifier call k;
\* without a notifier ("if self.discord:") no call is made; order lists the
\* tasks for which the step called asyncio.create_task, in the order of the calls
Op(o, t, k) ==
    [op |-> o, t |-> t, emit |-> IF discord THEN k ELSE "none", persist |-> 0, ret |-> 0,
     order |-> <<>>]
\* the same for a step that also ran _persist_task(task) for task t
OpPersist(o, t, k) == [Op(o, t, k) EXCEPT !.persist = t]

Runs == 1..NRuns

\* the four stages in the order run_full_cycle calls them
\* (optimization_runner.py lines 72, 85, 104, 116)
Stages == <<"analyze", "identify", "optimize", "deploy">>

\* an empty dict: metrics_before = {} and findings = {}
EmptyDict == [k \in {} |-> 0]

\* a run_full_cycle call not made yet
IdleCycle ==
    [pc |-> "idle", results |-> <<>>, analysis |-> EmptyDict,
     optimize_calls |-> <<>>, actions_taken |-> <<>>, rollout |-> <<>>,
     ab_success |-> "unset"]

\* a PerformanceAnalyzer on which analyze_recent_performance was not called
IdleAnalyzer ==
    [pc |-> "idle", metrics |-> EmptyDict, snapshots |-> <<>>,
     trends |-> EmptyDict, alerts |-> <<>>, recommendations |-> {}]

(* ------------------------------- Init ---------------------------------- *)

\* the members of OptimizationType (lines 19-24)
OptimizationTypes ==
    <<"hyperparameter", "feature_selection", "strategy_weights",
      "model_retrain", "risk_params">>

\* the task object with id t as the caller constructs it: an id, a type, a
\* component and a config of its own, and priority p
CallerTask(t, f, c, h, p) ==
    [OptimizationTask(f, c, h) EXCEPT
        !.task_id = t,
        !.task_type = OptimizationTypes[((t - 1) % Len(OptimizationTypes)) + 1],
        !.component_id = <<"component", t>>,
        !.priority = p,
        !.config = [owner |-> t]]

\* the engine after __init__ (lines 64-70) and the task objects the caller
\* holds: those of S have a frequency of F, a carried-over failure count of C,
\* a handler or not as H says, and priorities of P
InitWithPriorities(S, F, C, H, P) ==
    /\ now = 0
    /\ nticks = 0
    /\ discord \in BOOLEAN
    /\ tasks = <<>>
    /\ \E f \in F, c \in C, h \in H, p \in [S -> P] :
          task = [t \in TaskIds |->
                     IF t \in S THEN CallerTask(t, f, c, h, p[t])
                     ELSE CallerTask(t, "daily", 0, TRUE, DefaultPriority)]
    /\ running = FALSE
    /\ loops = [l \in Loops |-> "idle"]
    /\ execs = [t \in TaskIds |-> [p \in ExecPCs |-> 0]]
    /\ dispatched = [t \in TaskIds |-> 0]
    /\ disabled_calls = [t \in TaskIds |-> 0]
    /\ added_at = [t \in TaskIds |-> None]
    /\ db = {}
    /\ last = Op("init", 0, "none")
    /\ cycles = [r \in Runs |-> IdleCycle]
    /\ results_history = <<>>
    /\ analyzer = IdleAnalyzer

\* the same with every task at the default priority
InitWith(S, F, C, H) == InitWithPriorities(S, F, C, H, {DefaultPriority})

\* every task of an OptimizationType, all of which have a default handler
\* (lines 72-78)
Init == InitWith(Scheduled, Frequencies, {0, FailureLimit - 1}, {TRUE})

(* --------------------------- task registry ----------------------------- *)

\* the finally clause and add_task: _persist_task(task), lines 273-276
\* (the stub does not suspend and does not raise)
PersistTask(t) == db' = db \cup {t}

\* an add_task that leaves the task due at once
AddTask_DueAtOnce(t) ==
    /\ ~InRegistry(t)
    /\ task' = [task EXCEPT ![t].next_run_at = now]
    /\ tasks' = Append(tasks, t)
    /\ PersistTask(t)
    /\ added_at' = [added_at EXCEPT ![t] = now]
    /\ last' = [OpPersist("add", t, "task_added") EXCEPT !.ret = t]
    /\ UNCHANGED <<now, nticks, discord, cycles, results_history, analyzer, running, loops, execs, dispatched, disabled_calls>>

\* add_task(task): lines 84-97.  The caller passes the task object with id t.
\* notify_task_added (discord_notifier.py, lines 155-171) builds the message
\* and awaits send_message, which catches every Exception (lines 68-92);
\* add_task then only returns task.task_id.
AddTask(t) ==
    /\ ~InRegistry(t)
    /\ task' = [task EXCEPT ![t].next_run_at = CalculateNextRun(task[t].frequency, now)]
    /\ tasks' = Append(tasks, t)
    /\ PersistTask(t)
    /\ added_at' = [added_at EXCEPT ![t] = now]
    /\ last' = [OpPersist("add", t, "task_added") EXCEPT !.ret = t]
    /\ UNCHANGED <<now, nticks, discord, cycles, results_history, analyzer, running, loops, execs, dispatched, disabled_calls>>

\* a remove_task that makes its notifier call whether the id is present or not
RemoveTask_NotifiesAlways(t) ==
    /\ IF InRegistry(t)
       THEN /\ tasks' = SelectSeq(tasks, LAMBDA x : x # t)
            /\ db' = db \ {t}
       ELSE UNCHANGED <<tasks, db>>
    /\ last' = Op("remove", t, "task_removed")
    /\ UNCHANGED <<now, nticks, discord, cycles, results_history, analyzer, task, running, loops, execs, dispatched, disabled_calls, added_at>>

\* remove_task(task_id): lines 99-107
RemoveTask(t) ==
    /\ IF InRegistry(t)
       THEN /\ tasks' = SelectSeq(tasks, LAMBDA x : x # t)
            /\ db' = db \ {t}
            /\ last' = Op("remove", t, "task_removed")
       ELSE /\ UNCHANGED <<tasks, db>>
            /\ last' = Op("remove", t, "none")
    /\ UNCHANGED <<now, nticks, discord, cycles, results_history, analyzer, task, running, loops, execs, dispatched, disabled_calls, added_at>>

(* ----------------------------- poll loop ------------------------------- *)

\* Selected without the test of line 135
Selected_IgnoresEnabled(t) ==
    IF task[t].status = RUNNING THEN FALSE
    ELSE task[t].next_run_at # None /\ task[t].next_run_at <= now

\* Selected without the test of line 138
Selected_IgnoresRunning(t) ==
    IF ~task[t].enabled THEN FALSE
    ELSE task[t].next_run_at # None /\ task[t].next_run_at <= now

\* the test _process_pending_tasks makes on one task: lines 135-141
Selected(t) ==
    IF ~task[t].enabled THEN FALSE
    ELSE IF task[t].status = RUNNING THEN FALSE
    ELSE task[t].next_run_at # None /\ task[t].next_run_at <= now

\* self.tasks.values() sorted by descending priority
Values_ByPriority ==
    LET n == Len(tasks)
        Before(a, b) ==
            \/ task[tasks[a]].priority > task[tasks[b]].priority
            \/ task[tasks[a]].priority = task[tasks[b]].priority /\ a < b
        Rank(a) == Cardinality({b \in 1..n : Before(b, a)}) + 1
    IN  [i \in 1..n |-> tasks[CHOOSE a \in 1..n : Rank(a) = i]]

\* self.tasks.values() (line 134): a dict enumerates in insertion order
Values == tasks

\* the tasks one scan calls asyncio.create_task for, in the order of the
\* calls: the loop of lines 134-142
ScanOrder == SelectSeq(Values, Selected)

\* what a scan step records
ScanOp == [Op("scan", 0, "none") EXCEPT !.order = ScanOrder]

\* _process_pending_tasks(): lines 130-142.  No await inside: one step.
\* Every selected task gets a new _execute_task coroutine (asyncio.create_task).
ProcessPendingTasks ==
    LET D == {ScanOrder[i] : i \in 1..Len(ScanOrder)} IN
    /\ execs' = [t \in TaskIds |->
                    IF t \in D THEN [execs[t] EXCEPT !["created"] = @ + 1] ELSE execs[t]]
    /\ dispatched' = [t \in TaskIds |-> IF t \in D THEN dispatched[t] + 1 ELSE dispatched[t]]

\* start(): lines 109-120, up to the first suspension.  With a notifier the
\* coroutine suspends in notify_engine_started; without one it runs the first
\* scan at once and suspends in asyncio.sleep(60).
Start(l) ==
    /\ loops[l] = "idle"
    /\ \A k \in Loops : k < l => loops[k] # "idle"
    /\ running' = TRUE
    /\ IF discord
       THEN /\ loops' = [loops EXCEPT ![l] = "notify"]
            /\ last' = Op("start", 0, "engine_started")
            /\ UNCHANGED <<execs, dispatched>>
       ELSE /\ ProcessPendingTasks
            /\ loops' = [loops EXCEPT ![l] = "sleep"]
            /\ last' = ScanOp
    /\ UNCHANGED <<now, nticks, discord, cycles, results_history, analyzer, tasks, task, disabled_calls, added_at, db>>

\* notify_engine_started raises: start() ends with the exception (line 115)
StartNotifyRaise(l) ==
    /\ loops[l] = "notify"
    /\ loops' = [loops EXCEPT ![l] = "raised"]
    /\ last' = Op("start_raise", 0, "none")
    /\ UNCHANGED <<now, nticks, discord, cycles, results_history, analyzer, tasks, task, running, execs, dispatched,
                   disabled_calls, added_at, db>>

\* a loop that awaits the executions it dispatched before it goes on
LoopIteration_AwaitsExecutions(l) ==
    /\ loops[l] \in {"notify", "ready"}
    /\ \A t \in TaskIds : InFlight(t) = 0
    /\ IF running
       THEN /\ ProcessPendingTasks
            /\ loops' = [loops EXCEPT ![l] = "sleep"]
            /\ last' = ScanOp
       ELSE /\ loops' = [loops EXCEPT ![l] = "exited"]
            /\ last' = Op("exit", 0, "none")
            /\ UNCHANGED <<execs, dispatched>>
    /\ UNCHANGED <<now, nticks, discord, cycles, results_history, analyzer, tasks, task, running, disabled_calls, added_at, db>>

\* a loop "while True": it scans whether self.running is set or not
LoopIteration_IgnoresRunning(l) ==
    /\ loops[l] \in {"notify", "ready"}
    /\ ProcessPendingTasks
    /\ loops' = [loops EXCEPT ![l] = "sleep"]
    /\ last' = ScanOp
    /\ UNCHANGED <<now, nticks, discord, cycles, results_history, analyzer, tasks, task, running, disabled_calls, added_at, db>>

\* a loop that a failed execution ends, as if the loop awaited the executions
LoopIteration_EndsOnFailure(l) ==
    /\ loops[l] \in {"notify", "ready"}
    /\ IF running /\ \A t \in TaskIds : task[t].status # FAILED
       THEN /\ ProcessPendingTasks
            /\ loops' = [loops EXCEPT ![l] = "sleep"]
            /\ last' = ScanOp
       ELSE /\ loops' = [loops EXCEPT ![l] = "exited"]
            /\ last' = Op("exit", 0, "none")
            /\ UNCHANGED <<execs, dispatched>>
    /\ UNCHANGED <<now, nticks, discord, cycles, results_history, analyzer, tasks, task, running, disabled_calls, added_at, db>>

\* the loop test and one iteration: lines 117-120, entered after
\* notify_engine_started returned or after asyncio.sleep(60) returned
LoopIteration(l) ==
    /\ loops[l] \in {"notify", "ready"}
    /\ IF running
       THEN /\ ProcessPendingTasks
            /\ loops' = [loops EXCEPT ![l] = "sleep"]
            /\ last' = ScanOp
       ELSE /\ loops' = [loops EXCEPT ![l] = "exited"]
            /\ last' = Op("exit", 0, "none")
            /\ UNCHANGED <<execs, dispatched>>
    /\ UNCHANGED <<now, nticks, discord, cycles, results_history, analyzer, tasks, task, running, disabled_calls, added_at, db>>

\* a stop() that also cancels the _execute_task coroutines
Stop_Cancels ==
    /\ running
    /\ running' = FALSE
    /\ execs' = [t \in TaskIds |-> [p \in ExecPCs |-> 0]]
    /\ last' = Op("stop", 0, "none")
    /\ UNCHANGED <<now, nticks, discord, cycles, results_history, analyzer, tasks, task, loops, dispatched,
                   disabled_calls, added_at, db>>

\* stop(): lines 125-128
Stop ==
    /\ running
    /\ running' = FALSE
    /\ last' = Op("stop", 0, "none")
    /\ UNCHANGED <<now, nticks, discord, cycles, results_history, analyzer, tasks, task, loops, execs, dispatched,
                   disabled_calls, added_at, db>>

\* Time passes: one minute, or up to the moment a task falls due.
\* Coroutines created by asyncio.create_task start on the next pass of the
\* event loop, before any timer fires, so no time passes while one waits to
\* start.  Every asyncio.sleep(60) that was pending has returned afterwards.
Tick(maxT) ==
    /\ nticks < maxT
    /\ Created = {}
    /\ \E d \in {MinuteOffset} \cup
                {task[t].next_run_at - now : t \in {x \in TaskIds : task[x].next_run_at > now}} :
          now' = now + d
    /\ nticks' = nticks + 1
    /\ loops' = [l \in Loops |-> IF loops[l] = "sleep" THEN "ready" ELSE loops[l]]
    /\ last' = Op("tick", 0, "none")
    /\ UNCHANGED <<discord, cycles, results_history, analyzer, tasks, task, running, execs, dispatched, disabled_calls, added_at, db>>

(* ---------------------------- _execute_task ---------------------------- *)

\* a lookup that takes every task type to have a handler
HasHandler_Always(t) == TRUE

\* lines 156-157: self._task_handlers.get(task.task_type) gives a handler
HasHandler(t) == task[t].handled

\* lines 146-161: the coroutine starts, marks the task running, calls
\* notify_task_started (suspends) or, without a notifier, the handler (suspends)
ExecStart(t) ==
    /\ execs[t]["created"] > 0
    /\ discord \/ HasHandler(t)
    /\ task' = [task EXCEPT ![t].status = RUNNING, ![t].last_run_at = now]
    /\ execs' = Move(t, "created", IF discord THEN "n_started" ELSE "handler")
    /\ last' = Op("exec_start", t, "task_started")
    /\ UNCHANGED <<now, nticks, discord, cycles, results_history, analyzer, tasks, running, loops, dispatched, disabled_calls, added_at, db>>

\* notify_task_started returns; lines 154-161: the handler is called
NotifyStartedReturn(t) ==
    /\ execs[t]["n_started"] > 0
    /\ HasHandler(t)
    /\ execs' = Move(t, "n_started", "handler")
    /\ last' = Op("handler_call", t, "none")
    /\ UNCHANGED <<now, nticks, discord, cycles, results_history, analyzer, tasks, task, running, loops, dispatched,
                   disabled_calls, added_at, db>>

\* notify_task_started raises: line 152 is outside the try, so the coroutine
\* ends with the exception; neither the except nor the finally clause runs
NotifyStartedRaise(t) ==
    /\ execs[t]["n_started"] > 0
    /\ execs' = Finish(t, "n_started")
    /\ last' = Op("exec_abort", t, "none")
    /\ UNCHANGED <<now, nticks, discord, cycles, results_history, analyzer, tasks, task, running, loops, dispatched,
                   disabled_calls, added_at, db>>

\* lines 164-175 with the handler's result stored into the task's config
HandlerReturn_ResultIntoConfig(t) ==
    /\ execs[t]["handler"] > 0
    /\ task' = [task EXCEPT ![t].status = COMPLETED,
                            ![t].last_result = "result",
                            ![t].config = [owner |-> 0],
                            ![t].consecutive_failures = 0,
                            ![t].next_run_at = CalculateNextRun(task[t].frequency, now)]
    /\ IF discord
       THEN /\ execs' = Move(t, "handler", "n_completed")
            /\ UNCHANGED db
       ELSE /\ execs' = Finish(t, "handler")
            /\ PersistTask(t)
    /\ last' = IF discord THEN Op("exec_success", t, "task_completed")
               ELSE OpPersist("exec_success", t, "none")
    /\ UNCHANGED <<now, nticks, discord, cycles, results_history, analyzer, tasks, running, loops, dispatched, disabled_calls, added_at>>

\* lines 164-175: the handler returned a result
HandlerReturn(t) ==
    /\ execs[t]["handler"] > 0
    /\ task' = [task EXCEPT ![t].status = COMPLETED,
                            ![t].last_result = "result",
                            ![t].consecutive_failures = 0,
                            ![t].next_run_at = CalculateNextRun(task[t].frequency, now)]
    /\ IF discord
       THEN /\ execs' = Move(t, "handler", "n_completed")
            /\ UNCHANGED db
       ELSE /\ execs' = Finish(t, "handler")
            /\ PersistTask(t)
    /\ last' = IF discord THEN Op("exec_success", t, "task_completed")
               ELSE OpPersist("exec_success", t, "none")
    /\ UNCHANGED <<now, nticks, discord, cycles, results_history, analyzer, tasks, running, loops, dispatched, disabled_calls, added_at>>

\* Increment written "= +1" for "+= 1"
Increment_SetsOne(n) == 1

\* consecutive_failures after the except clause's increment: line 180
Increment(n) == n + 1

\* the test that disables a task: line 188
ReachedLimit(n) == n >= FailureLimit

\* lines 177-193, the except clause, entered by the coroutine of t at position
\* from with the exception err, the task objects being as in base (what the
\* same step has written before the exception); nra is the task's
\* next_run_at afterwards and ev the notifier call made
ExceptClauseOn(base, t, from, err, nra, ev) ==
    LET n == Increment(base[t].consecutive_failures) IN
    /\ IF discord
       THEN /\ task' = [base EXCEPT ![t].status = FAILED,
                                    ![t].last_error = err,
                                    ![t].consecutive_failures = n,
                                    ![t].next_run_at = nra]
            /\ execs' = Move(t, from, "n_failed")
            /\ UNCHANGED db
            /\ last' = Op("exec_failure", t, ev)
       ELSE /\ task' = [base EXCEPT ![t].status = FAILED,
                                    ![t].last_error = err,
                                    ![t].consecutive_failures = n,
                                    ![t].next_run_at = nra,
                                    ![t].enabled = IF ReachedLimit(n) THEN FALSE ELSE @]
            /\ execs' = Finish(t, from)
            /\ PersistTask(t)
            /\ last' = OpPersist("exec_failure", t, ev)
    /\ UNCHANGED <<now, nticks, discord, cycles, results_history, analyzer, tasks, running, loops, dispatched, disabled_calls, added_at>>

\* the except clause entered with an exception of the handler or of
\* notify_task_completed
ExceptClauseWith(t, from, nra, ev) ==
    ExceptClauseOn(task, t, from, "error", nra, ev)

\* an except clause that reschedules the task as the success path does
ExceptClause_Reschedules(t, from) ==
    ExceptClauseWith(t, from, CalculateNextRun(task[t].frequency, now), "task_failed")

\* an except clause that does not call notify_task_failed
ExceptClause_Silent(t, from) ==
    ExceptClauseWith(t, from, task[t].next_run_at, "none")

\* the except clause as written: next_run_at is not assigned, and
\* notify_task_failed is called (lines 184-185)
ExceptClause(t, from) ==
    ExceptClauseWith(t, from, task[t].next_run_at, "task_failed")

\* lines 146-158 and 177-196 without a notifier, for a task type without a
\* handler: the coroutine starts, marks the task running, raises ValueError
\* at line 158 and runs the except and finally clauses, all without suspending
ExecStartNoHandler(t) ==
    /\ execs[t]["created"] > 0
    /\ ~discord
    /\ ~HasHandler(t)
    /\ ExceptClauseOn([task EXCEPT ![t].status = RUNNING, ![t].last_run_at = now],
                      t, "created", "no handler", task[t].next_run_at, "task_failed")

\* notify_task_started returns and the task type has no handler: ValueError
\* at line 158, inside the try
NotifyStartedNoHandler(t) ==
    /\ execs[t]["n_started"] > 0
    /\ ~HasHandler(t)
    /\ ExceptClauseOn(task, t, "n_started", "no handler", task[t].next_run_at, "task_failed")

\* the handler raises (line 161)
HandlerRaise(t) ==
    /\ execs[t]["handler"] > 0
    /\ ExceptClause(t, "handler")

\* a success path that ends without the finally clause
NotifyCompletedReturn_NoPersist(t) ==
    /\ execs[t]["n_completed"] > 0
    /\ execs' = Finish(t, "n_completed")
    /\ last' = Op("exec_end", t, "none")
    /\ UNCHANGED <<now, nticks, discord, cycles, results_history, analyzer, tasks, task, running, loops, dispatched,
                   disabled_calls, added_at, db>>

\* notify_task_completed returns (line 175): finally
NotifyCompletedReturn(t) ==
    /\ execs[t]["n_completed"] > 0
    /\ execs' = Finish(t, "n_completed")
    /\ PersistTask(t)
    /\ last' = OpPersist("exec_end", t, "none")
    /\ UNCHANGED <<now, nticks, discord, cycles, results_history, analyzer, tasks, task, running, loops, dispatched, disabled_calls, added_at>>

\* notify_task_completed raises: line 175 is inside the try
NotifyCompletedRaise(t) ==
    /\ execs[t]["n_completed"] > 0
    /\ ExceptClause(t, "n_completed")

\* lines 187-196 with the persist made before the task is disabled as well
NotifyFailedReturn_PersistsBeforeDisable(t) ==
    /\ execs[t]["n_failed"] > 0
    /\ PersistTask(t)
    /\ IF ReachedLimit(task[t].consecutive_failures)
       THEN /\ task' = [task EXCEPT ![t].enabled = FALSE]
            /\ disabled_calls' = [disabled_calls EXCEPT ![t] = @ + 1]
            /\ execs' = Move(t, "n_failed", "n_disabled")
            /\ last' = OpPersist("exec_disable", t, "task_disabled")
       ELSE /\ execs' = Finish(t, "n_failed")
            /\ last' = OpPersist("exec_end", t, "none")
            /\ UNCHANGED <<task, disabled_calls>>
    /\ UNCHANGED <<now, nticks, discord, cycles, results_history, analyzer, tasks, running, loops, dispatched, added_at>>

\* notify_task_failed returns: lines 187-193
NotifyFailedReturn(t) ==
    /\ execs[t]["n_failed"] > 0
    /\ IF ReachedLimit(task[t].consecutive_failures)
       THEN /\ task' = [task EXCEPT ![t].enabled = FALSE]
            /\ disabled_calls' = [disabled_calls EXCEPT ![t] = @ + 1]
            /\ execs' = Move(t, "n_failed", "n_disabled")
            /\ last' = Op("exec_disable", t, "task_disabled")
            /\ UNCHANGED db
       ELSE /\ execs' = Finish(t, "n_failed")
            /\ PersistTask(t)
            /\ last' = OpPersist("exec_end", t, "none")
            /\ UNCHANGED <<task, disabled_calls>>
    /\ UNCHANGED <<now, nticks, discord, cycles, results_history, analyzer, tasks, running, loops, dispatched, added_at>>

\* notify_task_failed raises inside the except clause: the rest of the clause
\* is skipped, the finally clause runs, the coroutine ends with the exception
NotifyFailedRaise(t) ==
    /\ execs[t]["n_failed"] > 0
    /\ execs' = Finish(t, "n_failed")
    /\ PersistTask(t)
    /\ last' = OpPersist("exec_raise", t, "none")
    /\ UNCHANGED <<now, nticks, discord, cycles, results_history, analyzer, tasks, task, running, loops, dispatched, disabled_calls, added_at>>

\* notify_task_disabled returns or raises: finally
NotifyDisabledDone(t) ==
    /\ execs[t]["n_disabled"] > 0
    /\ execs' = Finish(t, "n_disabled")
    /\ PersistTask(t)
    /\ last' = OpPersist("exec_end", t, "none")
    /\ UNCHANGED <<now, nticks, discord, cycles, results_history, analyzer, tasks, task, running, loops, dispatched, disabled_calls, added_at>>

(* ----------------------- optimization pipeline ------------------------- *)
(* OptimizationRunner.run_full_cycle and its four stage methods.  Ratios    *)
(* are held in hundredths (0.45 is 45).  What the data-gathering,           *)
(* optimization and deployment helpers return or raise is an input: the     *)
(* helpers of lines 482-545 are placeholders for the real implementation.   *)
(* Each stage is one step, Deploy one step per stretch between its sleeps;  *)
(* concurrent runs share only results_history.                              *)

\* thresholds of _step_identify, in hundredths
WinRateCritical == 45
WinRateWarning == 50
DrawdownCritical == 15
DrawdownWarning == 10
AccuracyCritical == 55
AccuracyWarning == 60
SharpeCritical == 50
SharpeWarning == 100
RegimeWinRate == 40
\* days after which a model counts as stale
StaleDays == 30

\* defaults of metrics.get(...) in _step_identify, in hundredths
WinRateDefault == 50
DrawdownDefault == 0
AccuracyDefault == 60
SharpeDefault == 100

\* dict.get(k, d)
Get(m, k, d) == IF k \in DOMAIN m THEN m[k] ELSE d

\* OptimizationResult(step, success, ..., recommendations, actions_taken, error);
\* optimizations is findings['optimizations'] without its backtest entry: a
\* dict from category to the result stored for it
OptimizationResult(st, ok, recs, acts, opts, err) ==
    [step |-> st, success |-> ok, recommendations |-> recs,
     actions_taken |-> acts, optimizations |-> opts, error |-> err]

\* the result built by a stage's "except Exception" clause
FailedResult(st, acts) ==
    OptimizationResult(st, FALSE, <<>>, acts, EmptyDict, TRUE)

\* run_full_cycle after a failed stage, going on to the next stage all the same
Proceed_IgnoresFailure(res, next) == next

\* run_full_cycle after a stage: "if not result.success: return results"
Proceed(res, next) == IF res.success THEN next ELSE "returned"

\* one entry of the dict _get_regime_performance returns: the regime's name
\* and its win rate
Regime(name, w) == [name |-> name, win_rate |-> w]

\* what the first three data-gathering helpers and the regime helper return:
\* the four metrics Identify reads, the win rate of each market regime and the
\* age of the model in days (None: no last_trained)
Profile(w, d, a, s, rg, age) ==
    [win_rate_7d |-> w, max_drawdown |-> d, model_accuracy |-> a,
     sharpe_ratio |-> s, regime_performance |-> rg, model_age |-> age]

\* the placeholder values of lines 482-500 (no recommendation), all four
\* metrics beyond critical, and a win rate that is not a number
CycleProfiles ==
    { Profile(55, 8, 62, 120,
              <<Regime("trending_up", 65), Regime("trending_down", 45),
                Regime("ranging", 50), Regime("volatile", 40)>>, None),
      Profile(40, 20, 50, 30, <<>>, None),
      Profile(None, 8, 62, 120, <<>>, None) }

AnalyzeActions ==
    <<"Gathered trade statistics", "Analyzed strategy performance",
      "Evaluated model accuracy", "Checked regime performance">>

IdentifyActions ==
    <<"Evaluated win rate trends", "Checked drawdown limits",
      "Analyzed model performance", "Reviewed regime performance">>

\* results = [] and the call of _step_analyze
RunFullCycle(r) ==
    /\ cycles[r].pc = "idle"
    /\ cycles' = [cycles EXCEPT ![r].pc = "analyze"]
    /\ UNCHANGED <<discord, results_history, engine_vars, analyzer>>

\* _step_analyze, results.append and the check of its success
StepAnalyze(r, M) ==
    /\ cycles[r].pc = "analyze"
    /\ \E raised \in BOOLEAN, p \in M :
          LET res == IF raised THEN FailedResult("analyze", <<>>)
                     ELSE OptimizationResult("analyze", TRUE, <<>>,
                                             AnalyzeActions, EmptyDict, FALSE)
          IN  cycles' = [cycles EXCEPT
                            ![r].results = Append(@, res),
                            ![r].analysis = IF raised THEN EmptyDict ELSE p,
                            ![r].pc = Proceed(res, "identify")]
    /\ UNCHANGED <<discord, results_history, engine_vars, analyzer>>

\* 2.1 with the warning threshold tested first
WinRateRec_WarningFirst(v) ==
    IF v < WinRateWarning THEN <<"win_rate_warning">>
    ELSE IF v < WinRateCritical THEN <<"win_rate_critical">>
    ELSE <<>>

\* 2.1 win rate
WinRateRec(v) ==
    IF v < WinRateCritical THEN <<"win_rate_critical">>
    ELSE IF v < WinRateWarning THEN <<"win_rate_warning">>
    ELSE <<>>

\* 2.2 drawdown
DrawdownRec(v) ==
    IF v > DrawdownCritical THEN <<"max_drawdown_critical">>
    ELSE IF v > DrawdownWarning THEN <<"max_drawdown_warning">>
    ELSE <<>>

\* 2.3 model accuracy
AccuracyRec(v) ==
    IF v < AccuracyCritical THEN <<"model_accuracy_critical">>
    ELSE IF v < AccuracyWarning THEN <<"model_accuracy_warning">>
    ELSE <<>>

\* 2.4 Sharpe ratio
SharpeRec(v) ==
    IF v < SharpeCritical THEN <<"sharpe_ratio_critical">>
    ELSE IF v < SharpeWarning THEN <<"sharpe_ratio_warning">>
    ELSE <<>>

\* the recommendation of line 267 for a regime: its text holds the regime's
\* name, which is data; "regime" stands for the text with a name that holds
\* no keyword of _step_optimize
RegimeRec(name) ==
    IF name = "feature_risk_off" THEN "regime_feature_risk_off" ELSE "regime"

\* 2.5 one recommendation per regime with a win rate under 0.40
RegimeRecs(rg) ==
    LET IsPoor(g) == g.win_rate < RegimeWinRate
        poor == SelectSeq(rg, IsPoor)
    IN  [i \in 1..Len(poor) |-> RegimeRec(poor[i].name)]

\* 2.6 stale model
StaleRec(age) ==
    IF age /= None /\ age > StaleDays THEN <<"stale_model">> ELSE <<>>

\* the recommendations of _step_identify in the order it appends them
Recommendations(a) ==
    WinRateRec(Get(a, "win_rate_7d", WinRateDefault))
        \o DrawdownRec(Get(a, "max_drawdown", DrawdownDefault))
        \o AccuracyRec(Get(a, "model_accuracy", AccuracyDefault))
        \o SharpeRec(Get(a, "sharpe_ratio", SharpeDefault))
        \o RegimeRecs(Get(a, "regime_performance", <<>>))
        \o StaleRec(Get(a, "model_age", None))

\* a metric that is not a number makes its comparison raise TypeError
Comparable(a) ==
    \A k \in {"win_rate_7d", "max_drawdown", "model_accuracy", "sharpe_ratio"} :
        Get(a, k, 0) /= None

\* _step_identify followed by Optimize whatever the recommendations
StepIdentify_OptimizesAnyway(r) ==
    /\ cycles[r].pc = "identify"
    /\ LET a == cycles[r].analysis
           res == IF Comparable(a)
                  THEN OptimizationResult("identify", TRUE, Recommendations(a),
                                          IdentifyActions, EmptyDict, FALSE)
                  ELSE FailedResult("identify", <<>>)
       IN  cycles' = [cycles EXCEPT
                         ![r].results = Append(@, res),
                         ![r].pc = Proceed(res, "optimize")]
    /\ UNCHANGED <<discord, results_history, engine_vars, analyzer>>

\* _step_identify, results.append and the two checks after it
StepIdentify(r) ==
    /\ cycles[r].pc = "identify"
    /\ LET a == cycles[r].analysis
           res == IF Comparable(a)
                  THEN OptimizationResult("identify", TRUE, Recommendations(a),
                                          IdentifyActions, EmptyDict, FALSE)
                  ELSE FailedResult("identify", <<>>)
       IN  cycles' = [cycles EXCEPT
                         ![r].results = Append(@, res),
                         ![r].pc = IF res.recommendations = <<>>
                                   THEN Proceed(res, "returned")
                                   ELSE Proceed(res, "optimize")]
    /\ UNCHANGED <<discord, results_history, engine_vars, analyzer>>

\* the prefix of a recommendation's text: "CRITICAL:", "WARNING:" or neither
\* (texts of lines 238-275)
Severity(rec) ==
    IF rec \in {"win_rate_critical", "max_drawdown_critical",
                "model_accuracy_critical", "sharpe_ratio_critical"}
    THEN "CRITICAL"
    ELSE IF rec \in {"win_rate_warning", "max_drawdown_warning",
                     "model_accuracy_warning", "sharpe_ratio_warning"}
    THEN "WARNING"
    ELSE "none"

\* the metric a recommendation's text names ("Win rate", "Max drawdown",
\* "Model accuracy", "Sharpe ratio"), "none" for the regime and stale-model
\* recommendations
MetricOf(rec) ==
    IF rec \in {"win_rate_critical", "win_rate_warning"} THEN "win_rate_7d"
    ELSE IF rec \in {"max_drawdown_critical", "max_drawdown_warning"}
    THEN "max_drawdown"
    ELSE IF rec \in {"model_accuracy_critical", "model_accuracy_warning"}
    THEN "model_accuracy"
    ELSE IF rec \in {"sharpe_ratio_critical", "sharpe_ratio_warning"}
    THEN "sharpe_ratio"
    ELSE "none"

\* the keywords of _step_optimize found in the lower-cased text of a
\* recommendation (texts of lines 238-275 and 457)
Keywords(rec) ==
    CASE rec = "win_rate_critical" -> {"hyperparameter"}
      [] rec = "win_rate_warning" -> {"strategy weight"}
      [] rec = "max_drawdown_critical" -> {"risk", "drawdown"}
      [] rec = "max_drawdown_warning" -> {"drawdown"}
      [] rec = "model_accuracy_critical" -> {"model retraining"}
      [] rec = "model_accuracy_warning" -> {"feature"}
      [] rec = "sharpe_ratio_critical" -> {}
      [] rec = "sharpe_ratio_warning" -> {"strategy weight"}
      [] rec = "regime_feature_risk_off" -> {"feature", "risk"}
      [] OTHER -> {}

\* the chain with the risk test before the feature test
Routine_RiskBeforeFeature(rec) ==
    LET kw == Keywords(rec)
    IN  IF "hyperparameter" \in kw THEN "hyperparameters"
        ELSE IF "model retraining" \in kw THEN "model"
        ELSE IF "risk" \in kw \/ "drawdown" \in kw THEN "risk_params"
        ELSE IF "feature" \in kw THEN "features"
        ELSE IF "strategy weight" \in kw THEN "strategy_weights"
        ELSE "none"

\* the if/elif chain of lines 327-350: the category a recommendation is
\* optimized under, "none" when no keyword matches
Routine(rec) ==
    LET kw == Keywords(rec)
    IN  IF "hyperparameter" \in kw THEN "hyperparameters"
        ELSE IF "model retraining" \in kw THEN "model"
        ELSE IF "feature" \in kw THEN "features"
        ELSE IF "risk" \in kw \/ "drawdown" \in kw THEN "risk_params"
        ELSE IF "strategy weight" \in kw THEN "strategy_weights"
        ELSE "none"

\* the routines invoked for a list of recommendations, in order
Invocations(recs) ==
    LET Matches(rec) == Routine(rec) /= "none"
        hit == SelectSeq(recs, Matches)
    IN  [i \in 1..Len(hit) |-> Routine(hit[i])]

\* optimizations keeping, for each category, the result of its first invocation
Optimizations_KeepsFirst(inv) ==
    [c \in {inv[i] : i \in 1..Len(inv)} |->
        CHOOSE i \in 1..Len(inv) :
            inv[i] = c /\ \A j \in 1..Len(inv) : inv[j] = c => j >= i]

\* the dict optimizations after the loop of lines 324-350: the result of
\* invocation i, written i, is stored under the category of its routine, over
\* what an earlier invocation stored there
Optimizations(inv) ==
    [c \in {inv[i] : i \in 1..Len(inv)} |->
        CHOOSE i \in 1..Len(inv) :
            inv[i] = c /\ \A j \in 1..Len(inv) : inv[j] = c => j <= i]

\* actions_taken after the loop: one entry per invocation, naming the routine
\* and its result
OptimizeActions(inv) == [i \in 1..Len(inv) |-> [routine |-> inv[i], result |-> i]]

\* a cycle that stores its results in results_history also when Optimize
\* failed and the cycle stops
StepOptimize_StoresEarlyExit(r) ==
    /\ cycles[r].pc = "optimize"
    /\ LET recs == cycles[r].results[2].recommendations
           inv == Invocations(recs)
       IN  \E k \in 0..(Len(inv) + 1) :
              LET res == IF k = 0
                         THEN OptimizationResult("optimize", TRUE, <<>>,
                                  OptimizeActions(inv), Optimizations(inv), FALSE)
                         ELSE FailedResult("optimize", <<>>)
              IN  /\ cycles' = [cycles EXCEPT
                                   ![r].results = Append(@, res),
                                   ![r].optimize_calls =
                                       IF k = 0 THEN Append(inv, "backtest")
                                       ELSE SubSeq(inv, 1, k - 1),
                                   ![r].pc = Proceed(res, "deploy")]
                  /\ results_history' =
                        IF res.success THEN results_history
                        ELSE results_history \o Append(cycles[r].results, res)
    /\ UNCHANGED <<discord, engine_vars, analyzer>>

\* _step_optimize, results.append and the check of its success.  Invocation
\* k of a routine may raise (k <= Len(inv)), or the backtest (k = Len(inv) + 1),
\* or nothing (k = 0); optimize_calls are the external calls that returned
StepOptimize(r) ==
    /\ cycles[r].pc = "optimize"
    /\ LET recs == cycles[r].results[2].recommendations
           inv == Invocations(recs)
       IN  \E k \in 0..(Len(inv) + 1) :
              LET res == IF k = 0
                         THEN OptimizationResult("optimize", TRUE, <<>>,
                                  OptimizeActions(inv), Optimizations(inv), FALSE)
                         ELSE FailedResult("optimize", <<>>)
              IN  cycles' = [cycles EXCEPT
                                ![r].results = Append(@, res),
                                ![r].optimize_calls =
                                    IF k = 0 THEN Append(inv, "backtest")
                                    ELSE SubSeq(inv, 1, k - 1),
                                ![r].pc = Proceed(res, "deploy")]
    /\ UNCHANGED <<discord, results_history, engine_vars, analyzer>>

\* the end of _step_deploy and of run_full_cycle's try block: the result is
\* appended, results_history extended, and the completion is notified when a
\* notifier is attached (lines 116-126)
DeployEndsWith(r, res, calls, ab) ==
    /\ cycles' = [cycles EXCEPT
                     ![r].results = Append(@, res),
                     ![r].rollout = @ \o calls,
                     ![r].actions_taken = res.actions_taken,
                     ![r].ab_success = ab,
                     ![r].pc = IF discord THEN "notify" ELSE "returned"]
    /\ results_history' = results_history \o Append(cycles[r].results, res)

\* the same where ab_success is not assigned
DeployEnds(r, res, calls) == DeployEndsWith(r, res, calls, cycles[r].ab_success)

\* _step_deploy up to its first sleep, without the check of the smoke tests
DeployStaging_IgnoresSmokeTest(r) ==
    /\ cycles[r].pc = "deploy"
    /\ \E f \in {"ok", "staging_raise", "smoke_raise", "smoke_false", "ab_raise"} :
          LET staged == <<"Deployed to staging">>
              passed == Append(staged, IF f = "smoke_false"
                                       THEN "Smoke tests: FAILED"
                                       ELSE "Smoke tests: PASSED")
          IN  CASE f = "staging_raise" ->
                     DeployEnds(r, FailedResult("deploy", <<>>), <<>>)
                [] f = "smoke_raise" ->
                     DeployEnds(r, FailedResult("deploy", staged), <<"staging">>)
                [] f = "ab_raise" ->
                     DeployEnds(r, FailedResult("deploy", passed),
                                <<"staging", "smoke_test">>)
                [] OTHER ->
                     /\ cycles' = [cycles EXCEPT
                           ![r].rollout = <<"staging", "smoke_test", "ab_test_10">>,
                           ![r].actions_taken = Append(passed, "Started A/B test"),
                           ![r].pc = "monitor_1h"]
                     /\ UNCHANGED results_history
    /\ UNCHANGED <<discord, engine_vars, analyzer>>

\* _step_deploy up to its first sleep: staging, smoke tests, start of the A/B
\* test with 10% of the traffic
DeployStaging(r) ==
    /\ cycles[r].pc = "deploy"
    /\ \E f \in {"ok", "staging_raise", "smoke_raise", "smoke_false", "ab_raise"} :
          LET staged == <<"Deployed to staging">>
              passed == Append(staged, "Smoke tests: PASSED")
          IN  CASE f = "staging_raise" ->
                     DeployEnds(r, FailedResult("deploy", <<>>), <<>>)
                [] f = "smoke_raise" ->
                     DeployEnds(r, FailedResult("deploy", staged), <<"staging">>)
                [] f = "smoke_false" ->
                     DeployEnds(r, FailedResult("deploy",
                                       Append(staged, "Smoke tests: FAILED")),
                                <<"staging", "smoke_test">>)
                [] f = "ab_raise" ->
                     DeployEnds(r, FailedResult("deploy", passed),
                                <<"staging", "smoke_test">>)
                [] OTHER ->
                     /\ cycles' = [cycles EXCEPT
                           ![r].rollout = <<"staging", "smoke_test", "ab_test_10">>,
                           ![r].actions_taken = Append(passed, "Started A/B test"),
                           ![r].pc = "monitor_1h"]
                     /\ UNCHANGED results_history
    /\ UNCHANGED <<discord, engine_vars, analyzer>>

\* _step_deploy after sleep(3600), returning the failure result without the
\* rollback
DeployCheck_NoRollback(r) ==
    /\ cycles[r].pc = "monitor_1h"
    /\ \E f \in {"ok", "check_raise", "check_false", "update_raise"} :
          LET acts == cycles[r].actions_taken
          IN  CASE f = "check_raise" ->
                     DeployEnds(r, FailedResult("deploy", acts), <<"monitor_1h">>)
                [] f = "check_false" ->
                     DeployEndsWith(r,
                        OptimizationResult("deploy", FALSE,
                            <<"Review and fix issues before retrying">>,
                            acts, EmptyDict, TRUE),
                        <<"monitor_1h", "check">>, "false")
                [] f = "update_raise" ->
                     DeployEndsWith(r, FailedResult("deploy", acts),
                                    <<"monitor_1h", "check">>, "true")
                [] OTHER ->
                     /\ cycles' = [cycles EXCEPT
                           ![r].rollout = @ \o <<"monitor_1h", "check", "ab_test_50">>,
                           ![r].actions_taken = Append(acts, "Increased traffic to 50%"),
                           ![r].ab_success = "true",
                           ![r].pc = "monitor_2h"]
                     /\ UNCHANGED results_history
    /\ UNCHANGED <<discord, engine_vars, analyzer>>

\* _step_deploy after sleep(3600): the check of the A/B test, then the raise
\* to 50% of the traffic or the rollback
DeployCheck(r) ==
    /\ cycles[r].pc = "monitor_1h"
    /\ \E f \in {"ok", "check_raise", "check_false", "rollback_raise", "update_raise"} :
          LET acts == cycles[r].actions_taken
          IN  CASE f = "check_raise" ->
                     DeployEnds(r, FailedResult("deploy", acts), <<"monitor_1h">>)
                [] f = "check_false" ->
                     DeployEndsWith(r,
                        OptimizationResult("deploy", FALSE,
                            <<"Review and fix issues before retrying">>,
                            Append(acts, "Rolled back due to A/B test failure"),
                            EmptyDict, TRUE),
                        <<"monitor_1h", "check", "rollback">>, "false")
                [] f = "rollback_raise" ->
                     DeployEndsWith(r, FailedResult("deploy", acts),
                                    <<"monitor_1h", "check">>, "false")
                [] f = "update_raise" ->
                     DeployEndsWith(r, FailedResult("deploy", acts),
                                    <<"monitor_1h", "check">>, "true")
                [] OTHER ->
                     /\ cycles' = [cycles EXCEPT
                           ![r].rollout = @ \o <<"monitor_1h", "check", "ab_test_50">>,
                           ![r].actions_taken = Append(acts, "Increased traffic to 50%"),
                           ![r].ab_success = "true",
                           ![r].pc = "monitor_2h"]
                     /\ UNCHANGED results_history
    /\ UNCHANGED <<discord, engine_vars, analyzer>>

\* _step_deploy after sleep(7200), reporting success although the promotion
\* raised
DeployPromote_SuccessUnpromoted(r) ==
    /\ cycles[r].pc = "monitor_2h"
    /\ \E f \in {"ok", "promote_raise", "live_raise"} :
          LET acts == cycles[r].actions_taken
              promoted == Append(acts, "Promoted to 100% production traffic")
          IN  CASE f = "promote_raise" ->
                     DeployEnds(r,
                        OptimizationResult("deploy", TRUE, <<>>, acts,
                                           EmptyDict, FALSE),
                        <<"monitor_2h">>)
                [] f = "live_raise" ->
                     DeployEnds(r, FailedResult("deploy", promoted),
                                <<"monitor_2h", "production_100">>)
                [] OTHER ->
                     DeployEnds(r,
                        OptimizationResult("deploy", TRUE, <<>>, promoted,
                                           EmptyDict, FALSE),
                        <<"monitor_2h", "production_100", "live_metrics">>)
    /\ UNCHANGED <<discord, engine_vars, analyzer>>

\* _step_deploy after sleep(7200): promotion and the live metrics
DeployPromote(r) ==
    /\ cycles[r].pc = "monitor_2h"
    /\ \E f \in {"ok", "promote_raise", "live_raise"} :
          LET acts == cycles[r].actions_taken
              promoted == Append(acts, "Promoted to 100% production traffic")
          IN  CASE f = "promote_raise" ->
                     DeployEnds(r, FailedResult("deploy", acts), <<"monitor_2h">>)
                [] f = "live_raise" ->
                     DeployEnds(r, FailedResult("deploy", promoted),
                                <<"monitor_2h", "production_100">>)
                [] OTHER ->
                     DeployEnds(r,
                        OptimizationResult("deploy", TRUE, <<>>, promoted,
                                           EmptyDict, FALSE),
                        <<"monitor_2h", "production_100", "live_metrics">>)
    /\ UNCHANGED <<discord, engine_vars, analyzer>>

StepDeploy(r) == DeployStaging(r) \/ DeployCheck(r) \/ DeployPromote(r)

\* _notify_cycle_complete returns (a notifier with enabled = False returns at
\* once) and run_full_cycle returns results
NotifyCycleCompleteReturn(r) ==
    /\ cycles[r].pc = "notify"
    /\ cycles' = [cycles EXCEPT ![r].pc = "returned"]
    /\ UNCHANGED <<discord, results_history, engine_vars, analyzer>>

\* _notify_cycle_complete raises (notify_system_alert looks up
\* COLORS["success"], a string where the keys are NotificationType members);
\* the except clause of line 128 sends its alert and re-raises
NotifyCycleCompleteRaise(r) ==
    /\ cycles[r].pc = "notify"
    /\ cycles' = [cycles EXCEPT ![r].pc = "raised"]
    /\ UNCHANGED <<discord, results_history, engine_vars, analyzer>>

(* ------------------------- performance analyzer ------------------------ *)
(* PerformanceAnalyzer.analyze_recent_performance (performance_analyzer.py).*)
(* Metric values are integers (ratios in hundredths); change_percent is the *)
(* exact fraction num/den with den > 0.  The volatility of a trend          *)
(* (stdev / mean) enters no decision and is left out.                       *)

\* snapshots needed for a trend
MinSnapshots == 7
\* |change_percent| below which a trend is stable
StableBelow == 5
\* |change_percent| above which a declining trend raises an alert
TrendAlertAbove == 10

\* thresholds of _generate_alerts, in hundredths
AlertWinRateCritical == 45
AlertWinRateWarning == 50
AlertDrawdownCritical == 15
AlertDrawdownWarning == 10
AlertSharpeCritical == 50
AlertSharpeWarning == 100

\* defaults of metrics.get(...) in _generate_alerts and
\* _generate_recommendations, and the profit factor and win/loss ratio below
\* which a recommendation is made, in hundredths
AlertWinRateDefault == 50
AlertDrawdownDefault == 0
AlertSharpeDefault == 100
ProfitFactorDefault == 150
ProfitFactorTarget == 150
AverageWinDefault == 0
AverageLossDefault == 1
RewardRiskTarget == 150

\* metrics_to_track, in order
MetricsToTrack == <<"win_rate", "sharpe_ratio", "max_drawdown", "profit_factor">>

Abs(x) == IF x < 0 THEN -x ELSE x

RECURSIVE SumSeq(_)
SumSeq(s) == IF s = <<>> THEN 0 ELSE Head(s) + SumSeq(Tail(s))

\* change_pct of _calculate_trend: (recent_avg - historical_avg) /
\* abs(historical_avg) * 100, and 0 when historical_avg is 0
ChangePercent(values) ==
    LET mid_point == Len(values) \div 2
        recent == SubSeq(values, mid_point + 1, Len(values))
        historical == SubSeq(values, 1, mid_point)
    IN  IF SumSeq(historical) # 0
        THEN [num |-> (SumSeq(recent) * Len(historical)
                          - SumSeq(historical) * Len(recent)) * 100,
              den |-> Abs(SumSeq(historical)) * Len(recent)]
        ELSE [num |-> 0, den |-> 1]

\* direction with the stable cutoff applied to the signed change
Direction_SignedCutoff(metric, c) ==
    IF c.num < StableBelow * c.den THEN "stable"
    ELSE IF metric # "max_drawdown" THEN "improving" ELSE "declining"

\* direction of a trend, lines 174-180
Direction(metric, c) ==
    IF Abs(c.num) < StableBelow * c.den THEN "stable"
    ELSE IF c.num > 0
    THEN (IF metric # "max_drawdown" THEN "improving" ELSE "declining")
    ELSE (IF metric # "max_drawdown" THEN "declining" ELSE "improving")

\* what _calculate_trend returns for fewer than 7 snapshots
NoTrend ==
    [metric_name |-> "none", direction |-> "none",
     change_percent |-> [num |-> 0, den |-> 1]]

\* _calculate_trend(snapshots, metric)
CalculateTrend(snapshots, metric) ==
    IF Len(snapshots) < MinSnapshots THEN NoTrend
    ELSE LET values == [i \in 1..Len(snapshots) |-> snapshots[i][metric]]
             change_pct == ChangePercent(values)
         IN  [metric_name |-> metric,
              direction |-> Direction(metric, change_pct),
              change_percent |-> change_pct]

\* _analyze_trends on the snapshots _get_historical_snapshots returned
AnalyzeTrendsOf(snapshots) ==
    IF Len(snapshots) < MinSnapshots THEN EmptyDict
    ELSE [m \in {MetricsToTrack[i] : i \in 1..Len(MetricsToTrack)} |->
             CalculateTrend(snapshots, m)]

\* an alert of _generate_alerts: from a threshold or from a trend
Alert(sev, m, src) == [severity |-> sev, metric |-> m, source |-> src]

\* the threshold alerts for one metric
WinRateAlert(v) ==
    IF v < AlertWinRateCritical THEN <<Alert("critical", "win_rate", "threshold")>>
    ELSE IF v < AlertWinRateWarning THEN <<Alert("warning", "win_rate", "threshold")>>
    ELSE <<>>

DrawdownAlert(v) ==
    IF v > AlertDrawdownCritical
    THEN <<Alert("critical", "max_drawdown", "threshold")>>
    ELSE IF v > AlertDrawdownWarning
    THEN <<Alert("warning", "max_drawdown", "threshold")>>
    ELSE <<>>

SharpeAlert(v) ==
    IF v < AlertSharpeCritical
    THEN <<Alert("critical", "sharpe_ratio", "threshold")>>
    ELSE IF v < AlertSharpeWarning
    THEN <<Alert("warning", "sharpe_ratio", "threshold")>>
    ELSE <<>>

\* the trend-based alerts, in the order of the trends
TrendAlerts(trends) ==
    LET Alarming(m) ==
            /\ m \in DOMAIN trends
            /\ trends[m].direction = "declining"
            /\ Abs(trends[m].change_percent.num)
                  > TrendAlertAbove * trends[m].change_percent.den
        hit == SelectSeq(MetricsToTrack, Alarming)
    IN  [i \in 1..Len(hit) |-> Alert("warning", hit[i], "trend")]

\* _generate_alerts(metrics, trends)
GenerateAlerts(metrics, trends) ==
    WinRateAlert(Get(metrics, "win_rate", AlertWinRateDefault))
        \o DrawdownAlert(Get(metrics, "max_drawdown", AlertDrawdownDefault))
        \o SharpeAlert(Get(metrics, "sharpe_ratio", AlertSharpeDefault))
        \o TrendAlerts(trends)

\* _generate_recommendations(metrics, trends, alerts), a list without
\* duplicates
GenerateRecommendations(metrics, trends, alerts) ==
    LET Critical(m) ==
            \E i \in 1..Len(alerts) :
                alerts[i].metric = m /\ alerts[i].severity = "critical"
        Declining(m) == m \in DOMAIN trends /\ trends[m].direction = "declining"
        avg_win == Get(metrics, "average_win", AverageWinDefault)
        avg_loss == Get(metrics, "average_loss", AverageLossDefault)
    IN  (IF Critical("win_rate")
         THEN {"Perform hyperparameter optimization immediately",
               "Review entry signal criteria"} ELSE {})
        \cup (IF Critical("max_drawdown")
              THEN {"Tighten stop-loss parameters", "Reduce position sizes"}
              ELSE {})
        \cup (IF Critical("sharpe_ratio")
              THEN {"Retrain prediction models", "Optimize strategy weights"}
              ELSE {})
        \cup (IF Declining("win_rate")
              THEN {"Analyze losing trades for pattern changes"} ELSE {})
        \cup (IF Declining("sharpe_ratio")
              THEN {"Review risk-adjusted returns"} ELSE {})
        \cup (IF Get(metrics, "profit_factor", ProfitFactorDefault) < ProfitFactorTarget
              THEN {"Optimize take-profit targets"} ELSE {})
        \cup (IF avg_loss > 0 /\ avg_win * 100 < RewardRiskTarget * avg_loss
              THEN {"Improve risk/reward ratio (target 2:1 minimum)"} ELSE {})

\* the metrics _get_metrics returns: the values the alerts read, a model
\* accuracy, and the placeholder's profit factor and average win and loss
AnalyzerMetrics(w, d, s, a) ==
    [win_rate |-> w, max_drawdown |-> d, sharpe_ratio |-> s,
     model_accuracy |-> a, profit_factor |-> 184, average_win |-> 152,
     average_loss |-> 100]

\* a PerformanceSnapshot whose tracked metrics all have the value x
PerformanceSnapshot(x) ==
    [win_rate |-> x, sharpe_ratio |-> x, max_drawdown |-> x, profit_factor |-> x]

\* the snapshots whose tracked metrics follow the series of values v
SnapshotsOf(v) == [i \in 1..Len(v) |-> PerformanceSnapshot(v[i])]

\* the call of analyze_recent_performance up to the await of _get_metrics
AnalyzeRecentPerformance ==
    /\ analyzer.pc = "idle"
    /\ analyzer' = [analyzer EXCEPT !.pc = "get_metrics"]
    /\ UNCHANGED <<discord, cycles, results_history, engine_vars>>

\* _get_metrics returns one of the metrics of M; _analyze_trends is called
\* and awaits _get_historical_snapshots
GetMetrics(M) ==
    /\ analyzer.pc = "get_metrics"
    /\ \E m \in M :
          analyzer' = [analyzer EXCEPT !.metrics = m, !.pc = "analyze_trends"]
    /\ UNCHANGED <<discord, cycles, results_history, engine_vars>>

\* _get_historical_snapshots returns one of the series of S; the trends, the
\* alerts and the recommendations are computed and the results returned
AnalyzeTrends(S) ==
    /\ analyzer.pc = "analyze_trends"
    /\ \E snapshots \in S :
          LET trends == AnalyzeTrendsOf(snapshots)
              alerts == GenerateAlerts(analyzer.metrics, trends)
          IN  analyzer' = [analyzer EXCEPT
                  !.snapshots = snapshots,
                  !.trends = trends,
                  !.alerts = alerts,
                  !.recommendations =
                      GenerateRecommendations(analyzer.metrics, trends, alerts),
                  !.pc = "returned"]
    /\ UNCHANGED <<discord, cycles, results_history, engine_vars>>

(* --------------------------- specifications ---------------------------- *)

Execute(t) ==
    \/ ExecStart(t)
    \/ NotifyStartedReturn(t)
    \/ NotifyStartedRaise(t)
    \/ HandlerReturn(t)
    \/ HandlerRaise(t)
    \/ NotifyCompletedReturn(t)
    \/ NotifyCompletedRaise(t)
    \/ NotifyFailedReturn(t)
    \/ NotifyFailedRaise(t)
    \/ NotifyDisabledDone(t)

Next ==
    \/ \E t \in Scheduled : AddTask(t)
    \/ \E t \in Scheduled : RemoveTask(t)
    \/ \E l \in Pollers : Start(l)
    \/ \E l \in Pollers : StartNotifyRaise(l)
    \/ \E l \in Pollers : LoopIteration(l)
    \/ Stop
    \/ Tick(MaxTicks)
    \/ \E t \in Scheduled : Execute(t)

Spec == Init /\ [][Next]_vars

(* The runs in which the handler of the task raises on every call: one task
   on the "minute" cadence, constructed with the default consecutive_failures
   = 0. *)

InitFail ==
    /\ Init
    /\ task[1].frequency = "minute"
    /\ task[1].consecutive_failures = 0

ExecuteFail(t) ==
    \/ ExecStart(t)
    \/ NotifyStartedReturn(t)
    \/ NotifyStartedRaise(t)
    \/ HandlerRaise(t)
    \/ NotifyFailedReturn(t)
    \/ NotifyFailedRaise(t)
    \/ NotifyDisabledDone(t)

NextFail ==
    \/ \E t \in Scheduled : AddTask(t)
    \/ \E t \in Scheduled : RemoveTask(t)
    \/ Stop
    \/ \E l \in Pollers : Start(l)
    \/ \E l \in Pollers : StartNotifyRaise(l)
    \/ \E l \in Pollers : LoopIteration(l)
    \/ Tick(MaxFailTicks)
    \/ \E t \in Scheduled : ExecuteFail(t)

SpecFail == InitFail /\ [][NextFail]_vars

(* The runs in which the task's type may have no handler: a task_type for
   which register_task_handler stored None, or a member of another Enum. *)

InitNoHandler == InitWith(Scheduled, {"minute"}, {0, FailureLimit - 1}, BOOLEAN)

ExecuteNoHandler(t) ==
    \/ Execute(t)
    \/ ExecStartNoHandler(t)
    \/ NotifyStartedNoHandler(t)

NextNoHandler ==
    \/ \E t \in Scheduled : AddTask(t)
    \/ \E t \in Scheduled : RemoveTask(t)
    \/ Stop
    \/ \E l \in Pollers : Start(l)
    \/ \E l \in Pollers : StartNotifyRaise(l)
    \/ \E l \in Pollers : LoopIteration(l)
    \/ Tick(MaxTicks)
    \/ \E t \in Scheduled : ExecuteNoHandler(t)

SpecNoHandler == InitNoHandler /\ [][NextNoHandler]_vars

(* The runs with two tasks on the "minute" cadence, added by the caller in
   either order: the handler of task 1 raises on every call, the handler of
   task 2 returns or raises. *)

MaxPairTicks == 2

Pair == {1, 2}

InitPair == InitWith(Pair, {"minute"}, {0, FailureLimit - 1}, {TRUE})

NextPair ==
    \/ \E t \in Pair : AddTask(t)
    \/ Stop
    \/ \E l \in Pollers : Start(l)
    \/ \E l \in Pollers : LoopIteration(l)
    \/ Tick(MaxPairTicks)
    \/ ExecuteFail(1)
    \/ Execute(2)

SpecPair == InitPair /\ [][NextPair]_vars

(* The runs with the two tasks in which the handler of task 1 never returns,
   and in which the event loop resumes a start() coroutine whose sleep or
   notifier call has returned. *)

ExecuteHung(t) ==
    \/ ExecStart(t)
    \/ NotifyStartedReturn(t)
    \/ NotifyStartedRaise(t)

NextHung ==
    \/ \E t \in Pair : AddTask(t)
    \/ Stop
    \/ \E l \in Pollers : Start(l)
    \/ \E l \in Pollers : StartNotifyRaise(l)
    \/ \E l \in Pollers : LoopIteration(l)
    \/ Tick(MaxPairTicks)
    \/ ExecuteHung(1)
    \/ Execute(2)

SpecHung ==
    /\ InitPair
    /\ [][NextHung]_vars
    /\ \A l \in Pollers : WF_vars(LoopIteration(l) \/ StartNotifyRaise(l))

(* The runs of Spec in which every notifier call that an execution awaits
   after its handler ends, as does the one start() awaits: send_message
   (discord_notifier.py, lines 68-92) awaits one HTTP request, which the
   client session ends by its timeout; and in which the event loop resumes a
   start() coroutine whose sleep has returned. *)

InitLive == InitWith(Scheduled, {"minute"}, {0, FailureLimit - 1}, {TRUE})

SpecLive ==
    /\ InitLive
    /\ [][Next]_vars
    /\ \A l \in Pollers : WF_vars(LoopIteration(l) \/ StartNotifyRaise(l))
    /\ \A t \in Scheduled :
          /\ WF_vars(NotifyCompletedReturn(t) \/ NotifyCompletedRaise(t))
          /\ WF_vars(NotifyFailedReturn(t) \/ NotifyFailedRaise(t))
          /\ WF_vars(NotifyDisabledDone(t))

(* The runs in which the persistence the stubs of lines 273-293 stand for
   (an upsert of the task, an append of the improvement event, on self.db) can
   fail: the call raises. *)

\* add_task, line 90 raises: the task is in the registry, add_task ends with
\* the exception, without the notifier call and without returning the id
AddTaskPersistRaise(t) ==
    /\ ~InRegistry(t)
    /\ task' = [task EXCEPT ![t].next_run_at = CalculateNextRun(task[t].frequency, now)]
    /\ tasks' = Append(tasks, t)
    /\ added_at' = [added_at EXCEPT ![t] = now]
    /\ last' = Op("add_raise", t, "none")
    /\ UNCHANGED <<now, nticks, discord, cycles, results_history, analyzer, running, loops, execs, dispatched, disabled_calls, db>>

\* the handler returned, lines 164-167 ran, and _log_improvement_event (line
\* 170) raises: inside the try, so the except clause runs
HandlerReturnLogRaise(t) ==
    /\ execs[t]["handler"] > 0
    /\ ExceptClauseOn([task EXCEPT ![t].status = COMPLETED,
                                   ![t].last_result = "result",
                                   ![t].consecutive_failures = 0,
                                   ![t].next_run_at = CalculateNextRun(task[t].frequency, now)],
                      t, "handler", "persistence error",
                      CalculateNextRun(task[t].frequency, now), "task_failed")

\* the execution ends after notify_task_completed or notify_task_disabled and
\* _persist_task raises in the finally clause (line 196): the coroutine ends
\* with the exception, nothing is persisted
FinallyPersistRaise(t) ==
    /\ \E p \in {"n_completed", "n_disabled"} :
          /\ execs[t][p] > 0
          /\ execs' = Finish(t, p)
    /\ last' = Op("exec_persist_raise", t, "none")
    /\ UNCHANGED <<now, nticks, discord, cycles, results_history, analyzer, tasks, task, running, loops, dispatched,
                   disabled_calls, added_at, db>>

InitDb == InitWith(Scheduled, {"minute"}, {0, FailureLimit - 1}, {TRUE})

NextDb ==
    \/ Next
    \/ \E t \in Scheduled : AddTaskPersistRaise(t)
    \/ \E t \in Scheduled : HandlerReturnLogRaise(t)
    \/ \E t \in Scheduled : FinallyPersistRaise(t)

SpecDb == InitDb /\ [][NextDb]_vars

(* Runs of the optimization cycle, overlapping each other; the engine is   *)
(* constructed and left alone.                                              *)
InitCycle == InitWith(Scheduled, {"daily"}, {0}, {TRUE})

NextCycle ==
    \E r \in Runs :
        \/ RunFullCycle(r)
        \/ StepAnalyze(r, CycleProfiles)
        \/ StepIdentify(r)
        \/ StepOptimize(r)
        \/ StepDeploy(r)
        \/ NotifyCycleCompleteReturn(r)
        \/ NotifyCycleCompleteRaise(r)

SpecCycle == InitCycle /\ [][NextCycle]_vars

(* Identify on every combination of metric values at, next to and beyond   *)
(* its thresholds, without and with a poorly performing regime, whose name  *)
(* holds no keyword of Optimize or two of them.                             *)
MetricNames == {"win_rate_7d", "max_drawdown", "model_accuracy", "sharpe_ratio"}

IdentifyProfiles ==
    { Profile(w, d, a, s, rg, None) :
        w \in {40, 44, 45, 49, 50}, d \in {10, 11, 15, 16, 20},
        a \in {50, 54, 55, 59, 60}, s \in {30, 49, 50, 99, 100},
        rg \in {<<>>, <<Regime("ranging", 35)>>,
                <<Regime("feature_risk_off", 35)>>} }

NextIdentify ==
    \/ RunFullCycle(1)
    \/ StepAnalyze(1, IdentifyProfiles)
    \/ StepIdentify(1)

SpecIdentify == InitCycle /\ [][NextIdentify]_vars

(* Trend analysis on every series of 6 to MaxSnapshots snapshots over a    *)
(* negative value, zero and two values 5% apart, with the metrics of the    *)
(* placeholder _get_metrics.                                                *)
SnapshotValues == {-20, 0, 20, 21}

\* the series of n values
SeriesOfLen(n) == [1..n -> SnapshotValues]

PlaceholderMetrics == {AnalyzerMetrics(55, 8, 135, 62)}

NextTrend ==
    \/ AnalyzeRecentPerformance
    \/ GetMetrics(PlaceholderMetrics)
    \/ /\ analyzer.pc = "analyze_trends"
       /\ \E n \in (MinSnapshots - 1)..MaxSnapshots :
             \E v \in SeriesOfLen(n) : AnalyzeTrends({SnapshotsOf(v)})

\* the analyzer has no notifier
InitTrend == InitCycle /\ ~discord

SpecTrend == InitTrend /\ [][NextTrend]_vars

(* The alerts on every combination of metric values at and next to the    *)
(* thresholds, without snapshots, with a flat and with a falling series.    *)
AlertMetrics ==
    { AnalyzerMetrics(w, d, s, a) :
        w \in {44, 45, 49, 50}, d \in {10, 11, 15, 16},
        s \in {49, 50, 99, 100}, a \in {54, 55, 59, 60} }

AlertSeries ==
    { <<>>,
      SnapshotsOf(<<20, 20, 20, 20, 20, 20, 20>>),
      SnapshotsOf(<<21, 21, 21, 0, 0, 0, 0>>) }

NextAlerts ==
    \/ AnalyzeRecentPerformance
    \/ GetMetrics(AlertMetrics)
    \/ AnalyzeTrends(AlertSeries)

SpecAlerts == InitTrend /\ [][NextAlerts]_vars

(* One run up to the end of Optimize, on every combination of metric       *)
(* values at, next to and beyond the thresholds.                            *)
NextOptimize ==
    \/ RunFullCycle(1)
    \/ StepAnalyze(1, IdentifyProfiles)
    \/ StepIdentify(1)
    \/ StepOptimize(1)

SpecOptimize == InitCycle /\ [][NextOptimize]_vars


(* The runs with the two tasks on the "minute" cadence, constructed with    *)
(* priorities of the caller's choice and added and removed in any order,    *)
(* in which every handler and every notifier call returns.                  *)
Priorities == {1, 9}

MaxPriorityTicks == 1

InitPriority == InitWithPriorities(Pair, {"minute"}, {0}, {TRUE}, Priorities)

ExecuteReturn(t) ==
    \/ ExecStart(t)
    \/ NotifyStartedReturn(t)
    \/ HandlerReturn(t)
    \/ NotifyCompletedReturn(t)

NextPriority ==
    \/ \E t \in Pair : AddTask(t)
    \/ \E t \in Pair : RemoveTask(t)
    \/ Stop
    \/ \E l \in Pollers : Start(l)
    \/ \E l \in Pollers : StartNotifyRaise(l)
    \/ \E l \in Pollers : LoopIteration(l)
    \/ Tick(MaxPriorityTicks)
    \/ \E t \in Pair : ExecuteReturn(t)

SpecPriority == InitPriority /\ [][NextPriority]_vars

(* The runs in which the caller, after stop(), calls start() again: every   *)
(* start() call is a coroutine of its own, on the same engine.              *)
InitRestart == InitWith(Scheduled, {"minute"}, {0}, {TRUE})

\* start() called on an engine that is not running: never started, or stopped
StartStopped(l) == ~running /\ Start(l)

NextRestart ==
    \/ \E t \in Scheduled : AddTask(t)
    \/ Stop
    \/ \E l \in Loops : StartStopped(l)
    \/ \E l \in Loops : StartNotifyRaise(l)
    \/ \E l \in Loops : LoopIteration(l)
    \/ Tick(MaxTicks)
    \/ \E t \in Scheduled : Execute(t)

SpecRestart == InitRestart /\ [][NextRestart]_vars

(* ------------------------------- claims -------------------------------- *)

\* the step just taken was a poll scan (_process_pending_tasks ran)
ScanStep == last'.op = "scan"
\* the step just taken was the success path of an execution of t (lines 164-175)
SuccessStep(t) == last'.op = "exec_success" /\ last'.t = t
\* the step just taken was the except clause of an execution of t (lines 178-185)
FailureStep(t) == last'.op = "exec_failure" /\ last'.t = t
\* the step just taken was the disabling part of the except clause (lines 188-193)
DisableStep(t) == last'.op = "exec_disable" /\ last'.t = t

Due(t) == task[t].next_run_at # None /\ task[t].next_run_at <= now

\* C1: for every task, in every reachable state, at most one _execute_task run
\* of that task is in progress (between setting status = running and the
\* final persist).
C1_AtMostOneInFlight ==
    \A t \in TaskIds : InFlight(t) <= 1

\* C2: in every reachable state, for every task added with
\* consecutive_failures = 0 and enabled = true, consecutive_failures >= 5
\* implies enabled = false.
C2_LimitImpliesDisabled ==
    \A t \in TaskIds :
        task[t].consecutive_failures >= FailureLimit => ~task[t].enabled

\* C3: once a task has enabled = false, no poll scan dispatches it (no
\* _execute_task coroutine is created for it), even when it is due, and no
\* step of the engine sets enabled back to true.
C3_DisabledNeverDispatched ==
    [][\A t \in TaskIds :
          ~task[t].enabled =>
              /\ ~task'[t].enabled
              /\ dispatched'[t] = dispatched[t]
              /\ execs'[t]["created"] <= execs[t]["created"]]_vars

\* a scan has just passed over a registered, due, disabled task and left it alone
C3_Witness ==
    /\ last.op = "scan"
    /\ InRegistry(1)
    /\ ~task[1].enabled
    /\ Due(1)
    /\ execs[1]["created"] = 0

\* C4: a poll scan dispatches a registered task if and only if the task is
\* enabled, its status is not running, and its next_run_at is set and <= now;
\* every other task is left alone by the scan.
C4_ScanDispatchesExactlyTheDue ==
    [][ScanStep =>
          \A t \in TaskIds :
              IF /\ InRegistry(t)
                 /\ task[t].enabled
                 /\ task[t].status # RUNNING
                 /\ task[t].next_run_at # None
                 /\ task[t].next_run_at <= now
              THEN /\ dispatched'[t] = dispatched[t] + 1
                   /\ execs'[t]["created"] = execs[t]["created"] + 1
              ELSE /\ dispatched'[t] = dispatched[t]
                   /\ execs'[t] = execs[t]]_vars

\* a scan has just passed over a task that is running and due, after having
\* dispatched it once, and has not dispatched it again
C4_Witness ==
    /\ last.op = "scan"
    /\ InRegistry(1)
    /\ task[1].enabled
    /\ task[1].status = RUNNING
    /\ Due(1)
    /\ dispatched[1] = 1
    /\ execs[1]["created"] = 0

FrequencyOffset(f) ==
    CASE f = "hourly" -> HourlyOffset
      [] f = "daily" -> DailyOffset
      [] f = "weekly" -> 7 * DailyOffset
      [] f = "minute" -> MinuteOffset

NamedFrequencies == {"hourly", "daily", "weekly", "minute"}

\* C6 as stated: after a successful execution next_run_at equals last_run_at
\* (the time the execution started) plus offset(frequency), whatever the time
\* the handler took.
C6_NextRunFromLastRun ==
    [][\A t \in TaskIds :
          (SuccessStep(t) /\ task[t].frequency \in NamedFrequencies) =>
              task'[t].next_run_at = task'[t].last_run_at + FrequencyOffset(task[t].frequency)]_vars

\* C6 amended: the success path sets next_run_at to the time at which the
\* handler returned plus offset(frequency); that is never earlier than
\* last_run_at plus offset(frequency).
C6_NextRunFromCompletion ==
    [][\A t \in TaskIds :
          (SuccessStep(t) /\ task[t].frequency \in NamedFrequencies) =>
              /\ task'[t].next_run_at = now + FrequencyOffset(task[t].frequency)
              /\ task'[t].next_run_at >= task'[t].last_run_at + FrequencyOffset(task[t].frequency)]_vars

\* a weekly task has just succeeded with a handler that took time to return
C6_Witness ==
    /\ last.op = "exec_success"
    /\ last.t = 1
    /\ task[1].frequency = "weekly"
    /\ task[1].last_run_at # None
    /\ task[1].last_run_at < now
    /\ task[1].next_run_at = now + WeeklyOffset

\* C7: the failure path of an execution leaves the task's next_run_at and
\* last_result as they were; a registered task that has failed, is still
\* enabled and is due is dispatched again by the next poll scan.
C7_FailureKeepsSchedule ==
    [][\A t \in TaskIds :
          /\ FailureStep(t) =>
                /\ task'[t].next_run_at = task[t].next_run_at
                /\ task'[t].last_result = task[t].last_result
          /\ (ScanStep /\ InRegistry(t) /\ task[t].status = FAILED
                /\ task[t].enabled /\ Due(t)) =>
                dispatched'[t] = dispatched[t] + 1]_vars

\* a task that once succeeded was started again when due, its handler failed,
\* the execution ended, and a scan has just dispatched the task again
C7_Witness ==
    /\ last.op = "scan"
    /\ task[1].status = FAILED
    /\ task[1].last_result = "result"
    /\ task[1].last_run_at >= task[1].next_run_at
    /\ Due(1)
    /\ InFlight(1) = 0
    /\ execs[1]["created"] = 1

\* C8: a due, enabled task whose handler always fails is executed at most 5
\* times, its consecutive_failures never exceeds 5 and at most one "task
\* disabled" notification is emitted for it over the whole run.
C8_FiveRunsOneNotice ==
    \A t \in TaskIds :
        /\ dispatched[t] <= FailureLimit
        /\ task[t].consecutive_failures <= FailureLimit
        /\ disabled_calls[t] <= 1

\* C9 as stated: every failed execution sets status = failed and last_error
\* and, with a notifier attached, emits one notification for the failure and
\* no second one, also when the failure brings consecutive_failures to 5.
C9_OneNoticePerFailure ==
    [][\A t \in TaskIds :
          /\ FailureStep(t) =>
                /\ task'[t].status = FAILED
                /\ task'[t].last_error = "error"
                /\ discord => last'.emit = "task_failed"
          /\ DisableStep(t) => last'.emit = "none"]_vars

\* C9 amended: every failed execution sets status = failed and last_error and,
\* with a notifier attached, makes one "task failed" call; when that call has
\* returned and consecutive_failures >= 5 the same execution disables the task
\* and makes a second call, "task disabled", and it makes that call in no
\* other case.  No other step makes these calls.
C9_FailureNotices ==
    [][\A t \in TaskIds :
          /\ FailureStep(t) =>
                /\ task'[t].status = FAILED
                /\ task'[t].last_error = "error"
                /\ discord => last'.emit = "task_failed"
          /\ DisableStep(t) =>
                /\ task[t].consecutive_failures >= FailureLimit
                /\ ~task'[t].enabled
                /\ last'.emit = "task_disabled"
          /\ (execs'[t]["n_failed"] < execs[t]["n_failed"]
                /\ last'.op # "exec_raise"
                /\ task[t].consecutive_failures >= FailureLimit) =>
                DisableStep(t)
          /\ (last'.t = t /\ last'.emit \in {"task_failed", "task_disabled"}) =>
                (FailureStep(t) \/ DisableStep(t))]_vars

\* the fifth failure in a row has made its second notifier call
C9_Witness ==
    /\ last.op = "exec_disable"
    /\ last.emit = "task_disabled"
    /\ task[1].consecutive_failures = FailureLimit
    /\ task[1].status = FAILED
    /\ ~task[1].enabled

\* C10: a notifier call of _execute_task that raises changes nothing: after
\* notify_task_started the handler is called, after notify_task_completed the
\* task is left as the success path wrote it, after notify_task_failed a task
\* at the failure limit is disabled, and an execution that ends persists the
\* task.
C10_NotifierFailureHarmless ==
    [][\A t \in TaskIds :
          /\ execs'[t]["n_started"] < execs[t]["n_started"] =>
                execs'[t]["handler"] = execs[t]["handler"] + 1
          /\ execs'[t]["n_completed"] < execs[t]["n_completed"] =>
                /\ task'[t] = task[t]
                /\ t \in db'
          /\ (execs'[t]["n_failed"] < execs[t]["n_failed"]
                /\ task[t].consecutive_failures >= FailureLimit) =>
                ~task'[t].enabled]_vars

\* the step just taken was a call of add_task for t
AddStep(t) == last'.op \in {"add", "add_raise"} /\ last'.t = t
\* the step just taken was the one in which the handler of t returned a result
\* (the success path, or the except clause entered from line 170)
HandlerReturned(t) ==
    /\ last'.t = t
    /\ execs'[t]["handler"] < execs[t]["handler"]
    /\ \/ last'.op = "exec_success"
       \/ last'.op = "exec_failure" /\ task'[t].last_error = "persistence error"

\* C11: a failure of persistence changes nothing and is not propagated: when
\* the handler of an execution has returned, the task is left with status =
\* completed and consecutive_failures = 0 also when the append of the
\* improvement event or the upsert fails, and add_task stores the task and
\* returns its id also when the upsert fails.
C11_PersistenceFailureHarmless ==
    [][\A t \in TaskIds :
          /\ HandlerReturned(t) =>
                /\ task'[t].status = COMPLETED
                /\ task'[t].consecutive_failures = 0
          /\ AddStep(t) =>
                /\ InRegistry(t)'
                /\ last'.ret = t]_vars

\* positions of an execution whose handler has returned or raised
PostHandler == {"n_completed", "n_failed", "n_disabled"}

\* the step just taken ended an execution of t whose handler had been called
ExecutionEnds(t) ==
    /\ InFlight(t)' < InFlight(t)
    /\ execs'[t]["n_started"] = execs[t]["n_started"]

\* C12: an execution whose handler returned or raised persists the task
\* exactly once, after it has written the final status: the step in which the
\* handler returns or raises writes status = completed or failed; the step
\* that ends the execution, that one or a later one, runs _persist_task on
\* the task; no other step of an execution does; and every such execution
\* ends.
C12_PersistsOnceAtEnd ==
    /\ [][\A t \in TaskIds :
             /\ execs'[t]["handler"] < execs[t]["handler"] =>
                   task'[t].status \in {COMPLETED, FAILED}
             /\ ExecutionEnds(t) =>
                   /\ InFlight(t)' = InFlight(t) - 1
                   /\ last'.persist = t
                   /\ t \in db'
             /\ (last'.t = t /\ last'.op # "add" /\ ~ExecutionEnds(t)) =>
                   last'.persist = 0]_vars
    /\ \A t \in TaskIds :
          (SumPC(execs[t], PostHandler) > 0) ~> (SumPC(execs[t], PostHandler) = 0)

\* an execution that failed has ended after its notifier call and persisted
\* the task, which a remove had deleted from persistence in the meantime
C12_Witness ==
    /\ last.op = "exec_end"
    /\ last.persist = 1
    /\ discord
    /\ task[1].status = FAILED
    /\ ~InRegistry(1)
    /\ 1 \in db

\* the step just taken looked up the handler of t (lines 156-157): the
\* execution went on from notify_task_started without an exception, or,
\* without a notifier, it started
HandlerLookup(t) ==
    \/ execs'[t]["n_started"] < execs[t]["n_started"] /\ last'.op # "exec_abort"
    \/ ~discord /\ execs'[t]["created"] < execs[t]["created"]

\* C13: when an execution looks up the handler of a task whose type has none,
\* the execution fails: status = failed, last_error names the missing handler,
\* consecutive_failures grows by 1, the "task failed" call is made with a
\* notifier attached; and no handler is ever awaited for such a task.
C13_MissingHandlerFails ==
    [][\A t \in TaskIds :
          ~task[t].handled =>
              /\ HandlerLookup(t) =>
                    /\ FailureStep(t)
                    /\ task'[t].status = FAILED
                    /\ task'[t].last_error = "no handler"
                    /\ task'[t].consecutive_failures = task[t].consecutive_failures + 1
                    /\ discord => last'.emit = "task_failed"
              /\ execs'[t]["handler"] = 0]_vars

\* a task without a handler was dispatched with a notifier attached, its
\* "task started" call returned and the execution failed at the lookup
C13_Witness ==
    /\ last.op = "exec_failure"
    /\ last.emit = "task_failed"
    /\ ~task[1].handled
    /\ task[1].status = FAILED
    /\ task[1].last_error = "no handler"
    /\ task[1].consecutive_failures = 1
    /\ execs[1]["n_failed"] = 1

\* the step just taken was the except clause entered from the handler of t
HandlerRaised(t) == FailureStep(t) /\ execs'[t]["handler"] < execs[t]["handler"]

\* C14: a handler that raises does not stop the scheduler: the step records
\* the failure on that task and changes neither self.running, nor the poll
\* loop, nor another task or its executions; the poll loop ends only when it
\* finds self.running false; and a scan made while a task is in status failed
\* dispatches every other registered, enabled, due task that is not running.
C14_HandlerFailureIsLocal ==
    [][/\ \A t \in TaskIds :
             HandlerRaised(t) =>
                 /\ task'[t].status = FAILED
                 /\ task'[t].last_error = "error"
                 /\ running' = running
                 /\ loops' = loops
                 /\ \A u \in TaskIds \ {t} :
                       /\ task'[u] = task[u]
                       /\ execs'[u] = execs[u]
                       /\ dispatched'[u] = dispatched[u]
       /\ \A l \in Loops :
             (loops'[l] = "exited" /\ loops[l] # "exited") => ~running
       /\ \A t \in TaskIds, u \in TaskIds :
             (ScanStep /\ u # t /\ task[t].status = FAILED /\ InRegistry(u)
                /\ task[u].enabled /\ task[u].status # RUNNING /\ Due(u)) =>
                 dispatched'[u] = dispatched[u] + 1]_vars

\* the handler of task 1 raised at an earlier tick, the engine is running and
\* a scan has just dispatched task 2, which had completed a run before
C14_Witness ==
    /\ last.op = "scan"
    /\ running
    /\ task[1].status = FAILED
    /\ task[1].last_error = "error"
    /\ task[1].last_run_at < now
    /\ task[2].status = COMPLETED
    /\ execs[2]["created"] = 1

\* offset(frequency): the four named cadences, one day for any other
OffsetOrDefault(f) == IF f \in NamedFrequencies THEN FrequencyOffset(f) ELSE DailyOffset

\* C15: add_task at time t sets next_run_at = t + offset(frequency), stores
\* the task in the registry, persists it, makes one "task added" notifier
\* call and returns the task id; and no poll scan dispatches a task before
\* the time of its last add plus offset(frequency).
C15_AddSchedulesAfterOffset ==
    [][\A t \in TaskIds :
          /\ (last'.op = "add" /\ last'.t = t) =>
                /\ task'[t].next_run_at = now + OffsetOrDefault(task[t].frequency)
                /\ InRegistry(t)'
                /\ last'.persist = t
                /\ t \in db'
                /\ last'.emit = IF discord THEN "task_added" ELSE "none"
                /\ last'.ret = t
          /\ dispatched'[t] # dispatched[t] =>
                /\ added_at[t] # None
                /\ now >= added_at[t] + OffsetOrDefault(task[t].frequency)]_vars

\* a weekly task was added after time had passed, and the first scan that
\* dispatches it runs exactly one week after the add
C15_Witness ==
    /\ last.op = "scan"
    /\ task[1].frequency = "weekly"
    /\ added_at[1] > 0
    /\ now = added_at[1] + 7 * DailyOffset
    /\ dispatched[1] = 1
    /\ execs[1]["created"] = 1

\* the step just taken was a call of remove_task for the id t
RemoveStep(t) == last'.op = "remove" /\ last'.t = t

\* C16: remove_task of an id that is present deletes the task from the
\* registry and from persistence and makes exactly one "task removed" notifier
\* call; of an id that is absent it changes neither the registry nor
\* persistence and makes no notifier call, so that a second remove_task of the
\* same id changes nothing; in both cases nothing else of the engine changes.
C16_RemoveIdempotent ==
    [][\A t \in TaskIds :
          RemoveStep(t) =>
              /\ IF InRegistry(t)
                 THEN /\ tasks' = SelectSeq(tasks, LAMBDA x : x # t)
                      /\ t \notin db'
                      /\ db' \ {t} = db \ {t}
                      /\ last'.emit = IF discord THEN "task_removed" ELSE "none"
                 ELSE /\ tasks' = tasks
                      /\ db' = db
                      /\ last'.emit = "none"
              /\ ~InRegistry(t)'
              /\ UNCHANGED <<task, running, loops, execs, dispatched>>]_vars

\* with a notifier attached, remove_task has just been called for a task that
\* an earlier remove_task had removed, and has made no notifier call
C16_Witness ==
    /\ last.op = "remove"
    /\ last.t = 1
    /\ discord
    /\ last.emit = "none"
    /\ added_at[1] # None
    /\ ~InRegistry(1)
    /\ 1 \notin db

\* stop() has been called after start(), and start() not again since
Stopped == ~running /\ \E l \in Loops : loops[l] # "idle"
\* the step just taken was a call of start()
StartStep == \E l \in Loops : loops[l] = "idle" /\ loops'[l] # "idle"
\* the start() coroutine l has left its loop
LoopOver(l) == loops[l] \in {"exited", "raised"}

\* C17: once stop() has been called, and as long as start() is not called
\* again, no poll scan runs and no task is dispatched, self.running stays
\* false, and a start() coroutine that comes to its loop test leaves the loop,
\* which it does as soon as its sleep (or its notifier call) has returned.
C17_StopEndsPolling ==
    /\ [][(Stopped /\ ~StartStep) =>
             /\ ~ScanStep
             /\ dispatched' = dispatched
             /\ \A t \in TaskIds : execs'[t]["created"] <= execs[t]["created"]
             /\ ~running'
             /\ \A l \in Loops :
                   loops'[l] # loops[l] =>
                       IF loops[l] = "sleep" THEN loops'[l] = "ready" ELSE LoopOver(l)']_vars
    /\ \A l \in Loops :
          (Stopped /\ loops[l] \in {"notify", "ready"}) ~> LoopOver(l)

\* stop() was called while the loop slept; the loop woke up and left without
\* a scan although a registered, enabled task was due
C17_Witness ==
    /\ last.op = "exit"
    /\ loops[1] = "exited"
    /\ ~running
    /\ InRegistry(1)
    /\ task[1].enabled
    /\ task[1].status # RUNNING
    /\ Due(1)
    /\ dispatched[1] = 0

\* the step just taken was a call of stop()
StopStep == last'.op = "stop"

\* C18: stop() changes no task field, no execution and no persisted record;
\* and the executions go on after it as before: one whose handler returns or
\* raises after stop() writes status = completed or failed, one that ends
\* after stop() persists the task, and every one whose handler has returned
\* or raised ends.
C18_StopLeavesExecutions ==
    /\ [][/\ StopStep => UNCHANGED <<task, tasks, execs, dispatched, db>>
          /\ \A t \in TaskIds :
                Stopped =>
                    /\ execs'[t]["handler"] < execs[t]["handler"] =>
                          task'[t].status \in {COMPLETED, FAILED}
                    /\ ExecutionEnds(t) =>
                          /\ last'.persist = t
                          /\ t \in db']_vars
    /\ \A t \in TaskIds :
          (Stopped /\ SumPC(execs[t], PostHandler) > 0)
              ~> (Stopped /\ SumPC(execs[t], PostHandler) = 0)

\* stop() has just been called while an execution of task 1, whose handler
\* had returned, was awaiting its "task completed" notifier call
C18_Witness ==
    /\ last.op = "stop"
    /\ ~running
    /\ task[1].status = COMPLETED
    /\ execs[1]["n_completed"] = 1

\* an execution of t is suspended in the handler
InHandler(t) == execs[t]["handler"] > 0

\* C19: the poll loop does not wait for an execution.  Task 1 being the task
\* whose handler never returns: once an execution of it is suspended in the
\* handler, the task keeps status = running and no scan dispatches the task;
\* a scan made meanwhile dispatches every
\* other registered, enabled, due task that is not running; and a loop whose
\* sleep has returned goes on to its next iteration while the handler hangs.
C19_HungHandlerBlocksOnlyItsTask ==
    /\ [][InHandler(1) =>
             /\ task'[1].status = RUNNING
             /\ dispatched'[1] = dispatched[1]
             /\ \A u \in TaskIds \ {1} :
                   (ScanStep /\ InRegistry(u) /\ task[u].enabled
                      /\ task[u].status # RUNNING /\ Due(u)) =>
                       dispatched'[u] = dispatched[u] + 1]_vars
    /\ \A l \in Loops :
          (InHandler(1) /\ loops[l] = "ready") ~> (loops[l] # "ready")

\* the handler of task 1 has been hanging since an earlier tick; a scan has
\* just passed over task 1, due and running, and dispatched task 2 for the
\* second time
C19_Witness ==
    /\ last.op = "scan"
    /\ execs[1]["handler"] = 1
    /\ task[1].status = RUNNING
    /\ task[1].last_run_at < now
    /\ Due(1)
    /\ dispatched[1] = 1
    /\ dispatched[2] = 2
    /\ execs[2]["created"] = 1

(* C20: every run of run_full_cycle that returns hands back a non-empty     *)
(* prefix of [analyze, identify, optimize, deploy] in which every entry but *)
(* the last has success = true; a run appends the stages one at a time in   *)
(* that order, and appends nothing once an entry has success = false.       *)
StagePrefix(res) ==
    /\ Len(res) \in 1..Len(Stages)
    /\ \A i \in 1..Len(res) : res[i].step = Stages[i]

HasFailedStage(res) == \E i \in 1..Len(res) : ~res[i].success

C20_StagesInOrderUntilFailure ==
    [][\A r \in Runs :
          /\ cycles'[r].pc = "returned" =>
                /\ StagePrefix(cycles'[r].results)
                /\ \A i \in 1..(Len(cycles'[r].results) - 1) :
                      cycles'[r].results[i].success
          /\ cycles'[r].results /= cycles[r].results =>
                /\ ~HasFailedStage(cycles[r].results)
                /\ Len(cycles[r].results) < Len(Stages)
                /\ Len(cycles'[r].results) = Len(cycles[r].results) + 1
                /\ SubSeq(cycles'[r].results, 1, Len(cycles[r].results))
                      = cycles[r].results
                /\ cycles'[r].results[Len(cycles'[r].results)].step
                      = Stages[Len(cycles'[r].results)]
          /\ HasFailedStage(cycles[r].results) =>
                cycles'[r].rollout = cycles[r].rollout]_vars

\* a run returned three results, the last of them a failed Optimize, while
\* another run returned all four
C20_Witness ==
    \E r, q \in Runs :
        /\ cycles[r].pc = "returned"
        /\ Len(cycles[r].results) = 3
        /\ ~cycles[r].results[3].success
        /\ cycles[q].pc = "returned"
        /\ Len(cycles[q].results) = 4

\* the Identify result of a run that needs no action
NoActionNeeded(res) ==
    /\ Len(res) >= 2
    /\ res[2].step = "identify"
    /\ res[2].success
    /\ res[2].recommendations = <<>>

(* C21: when Identify succeeds with no recommendation the run returns at    *)
(* once with exactly the two results Analyze and Identify, both successful, *)
(* and from then on the run does nothing: it appends no result, so neither  *)
(* Optimize nor Deploy runs, and it has made no deployment call.            *)
C21_NoRecommendationsEndsCycle ==
    [][\A r \in Runs :
          /\ (cycles[r].pc = "identify" /\ NoActionNeeded(cycles'[r].results)) =>
                /\ cycles'[r].pc = "returned"
                /\ Len(cycles'[r].results) = 2
                /\ cycles'[r].results[1].step = "analyze"
                /\ cycles'[r].results[1].success
          /\ NoActionNeeded(cycles[r].results) =>
                /\ cycles'[r] = cycles[r]
                /\ cycles[r].rollout = <<>>]_vars

\* a run has returned [analyze, identify], both successful, with no
\* recommendation, on the metrics the placeholder helpers return
C21_Witness ==
    \E r \in Runs :
        /\ cycles[r].pc = "returned"
        /\ Len(cycles[r].results) = 2
        /\ cycles[r].results[1].success
        /\ cycles[r].results[2].success
        /\ cycles[r].results[2].recommendations = <<>>
        /\ cycles[r].analysis.win_rate_7d = 55

\* the thresholds as the specification states them, in hundredths
BeyondCritical(m, v) ==
    CASE m = "win_rate_7d" -> v < 45
      [] m = "max_drawdown" -> v > 15
      [] m = "model_accuracy" -> v < 55
      [] m = "sharpe_ratio" -> v < 50

BeyondWarning(m, v) ==
    CASE m = "win_rate_7d" -> v < 50
      [] m = "max_drawdown" -> v > 10
      [] m = "model_accuracy" -> v < 60
      [] m = "sharpe_ratio" -> v < 100

\* the positions of the recommendations about metric m with severity sev
RecsAbout(recs, m, sev) ==
    {i \in 1..Len(recs) : MetricOf(recs[i]) = m /\ Severity(recs[i]) = sev}

(* C22: a successful Identify emits, for each of the four metrics, one      *)
(* CRITICAL recommendation iff the metric is beyond its critical threshold, *)
(* one WARNING recommendation iff it is beyond the warning threshold only,  *)
(* and none otherwise; with all four beyond critical the CRITICAL           *)
(* recommendations are exactly four.                                        *)
C22_OneRecommendationPerMetric ==
    \A r \in Runs :
        (Len(cycles[r].results) >= 2 /\ cycles[r].results[2].success) =>
            LET recs == cycles[r].results[2].recommendations
                a == cycles[r].analysis
            IN  /\ \A m \in MetricNames :
                      /\ Cardinality(RecsAbout(recs, m, "CRITICAL")) =
                            IF BeyondCritical(m, a[m]) THEN 1 ELSE 0
                      /\ Cardinality(RecsAbout(recs, m, "WARNING")) =
                            IF BeyondWarning(m, a[m]) /\ ~BeyondCritical(m, a[m])
                            THEN 1 ELSE 0
                /\ (\A m \in MetricNames : BeyondCritical(m, a[m])) =>
                      Cardinality({i \in 1..Len(recs) :
                                      Severity(recs[i]) = "CRITICAL"}) = 4

\* Identify has run on win_rate_7d = 0.40, max_drawdown = 0.20,
\* model_accuracy = 0.50, sharpe_ratio = 0.3 and emitted four recommendations
C22_Witness ==
    /\ Len(cycles[1].results) = 2
    /\ cycles[1].results[2].success
    /\ cycles[1].analysis = Profile(40, 20, 50, 30, <<>>, None)
    /\ Len(cycles[1].results[2].recommendations) = 4

\* the actions Deploy has taken in run r include the string s
DeployTook(r, s) ==
    \E i \in 1..Len(cycles[r].actions_taken) : cycles[r].actions_taken[i] = s

\* the deployment calls run r has completed include the call c
Called(r, c) == \E i \in 1..Len(cycles[r].rollout) : cycles[r].rollout[i] = c

(* C23: once the smoke tests of a Deploy have failed, the stage has ended   *)
(* with success = false and its only calls were the staging deployment and  *)
(* the smoke tests: no A/B test, monitoring wait, traffic update, promotion *)
(* or rollback.                                                             *)
C23_SmokeTestFailureAborts ==
    \A r \in Runs :
        DeployTook(r, "Smoke tests: FAILED") =>
            /\ Len(cycles[r].results) = 4
            /\ cycles[r].results[4].step = "deploy"
            /\ ~cycles[r].results[4].success
            /\ cycles[r].results[4].error
            /\ cycles[r].pc \in {"notify", "returned", "raised"}
            /\ cycles[r].rollout = <<"staging", "smoke_test">>
            /\ \A c \in {"ab_test_10", "monitor_1h", "check", "ab_test_50",
                         "monitor_2h", "production_100", "rollback"} :
                  ~Called(r, c)

\* a run has returned all four results after the smoke tests of its Deploy
\* failed
C23_Witness ==
    \E r \in Runs :
        /\ DeployTook(r, "Smoke tests: FAILED")
        /\ cycles[r].pc = "returned"
        /\ Len(cycles[r].results) = 4

\* the A/B check of run r returned False
CheckFailed(r) == cycles[r].ab_success = "false"

\* what holds of every Deploy whose A/B check returned False: the stage has
\* produced its result, with success = false, the traffic was never raised to
\* 50% and nothing was promoted
FailedCheckEndsDeploy(r) ==
    /\ Len(cycles[r].results) = 4
    /\ ~cycles[r].results[4].success
    /\ ~Called(r, "ab_test_50")
    /\ ~Called(r, "production_100")

\* the rollback was the last call of the Deploy of run r and its result
\* recommends a review
RolledBackWithReview(r) ==
    /\ Len(cycles[r].rollout) > 0
    /\ cycles[r].rollout[Len(cycles[r].rollout)] = "rollback"
    /\ cycles[r].results[4].recommendations =
          <<"Review and fix issues before retrying">>

(* C24 as stated: whenever the A/B check has returned False, Deploy has     *)
(* rolled back before producing its result, has not raised the traffic to   *)
(* 50% nor promoted, and reports success = false with the recommendation to *)
(* review before retrying.                                                  *)
C24_Original ==
    \A r \in Runs :
        CheckFailed(r) => (FailedCheckEndsDeploy(r) /\ RolledBackWithReview(r))

(* C24, amended: the same, except that the rollback has completed and the   *)
(* recommendation is given only when the rollback call does not raise; when *)
(* it raises, the result is the stage-error result, without recommendation. *)
C24_FailedCheckRollsBack ==
    \A r \in Runs :
        CheckFailed(r) =>
            /\ FailedCheckEndsDeploy(r)
            /\ \/ RolledBackWithReview(r)
               \/ /\ ~Called(r, "rollback")
                  /\ cycles[r].results[4].error
                  /\ cycles[r].results[4].recommendations = <<>>

\* a run has returned after a failed A/B check and a completed rollback
C24_Witness ==
    \E r \in Runs :
        /\ CheckFailed(r)
        /\ Called(r, "rollback")
        /\ cycles[r].pc = "returned"

\* the rollout steps in the order the specification gives them
RolloutOrder ==
    <<"staging", "smoke_test", "ab_test_10", "monitor_1h", "check",
      "ab_test_50", "monitor_2h", "production_100">>

\* the rollout steps among the deployment calls of run r, in call order
RolloutSteps(r) ==
    LET IsStep(c) == \E i \in 1..Len(RolloutOrder) : RolloutOrder[i] = c
    IN  SelectSeq(cycles[r].rollout, IsStep)

\* the traffic shares Deploy has set in run r, in call order
TrafficShares(r) ==
    LET SetsTraffic(c) == c \in {"ab_test_10", "ab_test_50", "production_100"}
    IN  SelectSeq(cycles[r].rollout, SetsTraffic)

(* C25: the rollout steps a Deploy has made are always an initial part of   *)
(* staging, smoke_test, ab_test(10%), monitor(1h), check, ab_test(50%),     *)
(* monitor(2h), production(100%), so the traffic share goes 10, 50, 100;    *)
(* production is reached only after a successful A/B check and both         *)
(* monitoring waits, and Deploy reports success only after promotion.       *)
C25_RolloutOrder ==
    \A r \in Runs :
        /\ Len(RolloutSteps(r)) <= Len(RolloutOrder)
        /\ RolloutSteps(r) = SubSeq(RolloutOrder, 1, Len(RolloutSteps(r)))
        /\ TrafficShares(r) =
              SubSeq(<<"ab_test_10", "ab_test_50", "production_100">>,
                     1, Len(TrafficShares(r)))
        /\ Called(r, "production_100") =>
              /\ cycles[r].ab_success = "true"
              /\ Called(r, "monitor_1h")
              /\ Called(r, "monitor_2h")
        /\ (Len(cycles[r].results) = 4 /\ cycles[r].results[4].success) =>
              Called(r, "production_100")

\* a Deploy has gone through all eight rollout steps and reported success
C25_Witness ==
    \E r \in Runs :
        /\ RolloutSteps(r) = RolloutOrder
        /\ Len(cycles[r].results) = 4
        /\ cycles[r].results[4].success

\* the last result of run r was built by a stage's except clause: an
\* external call of that stage raised
StageRaised(r) ==
    /\ Len(cycles[r].results) > 0
    /\ LET res == cycles[r].results[Len(cycles[r].results)]
       IN  /\ ~res.success
           /\ res.error
           /\ res.recommendations = <<>>
           /\ (res.step = "identify" => Comparable(cycles[r].analysis))

(* C26: an exception raised by an external call of a stage is not thrown to *)
(* the caller of run_full_cycle: the run whose stage built its result from  *)
(* the exception appends no further result and does not end by raising.     *)
C26_StageExceptionNotThrown ==
    \A r \in Runs : StageRaised(r) => cycles[r].pc # "raised"

(* C27: a failure of the notifier does not alter the pipeline: the run that *)
(* has called the cycle-complete notification after its four stages goes on *)
(* to return its four results, whether or not that call raises.             *)
C27_NotifierFailureHarmlessToCycle ==
    [][\A r \in Runs :
          (cycles[r].pc = "notify" /\ cycles'[r].pc # "notify") =>
              /\ cycles'[r].pc = "returned"
              /\ cycles'[r].results = cycles[r].results
              /\ Len(cycles'[r].results) = 4]_vars

\* the sum of the values of metric m in the snapshots i..j
RECURSIVE MetricSum(_, _, _, _)
MetricSum(snaps, m, i, j) ==
    IF i > j THEN 0 ELSE snaps[i][m] + MetricSum(snaps, m, i + 1, j)

\* the fraction c is the change, in percent of the size of the earlier mean,
\* from the mean of the earlier half of the snapshots to the mean of the later
\* half, which starts at index len/2 counted from 0
ComparesHalves(c, snaps, m) ==
    LET n == Len(snaps)
        h == n \div 2
        earlier == MetricSum(snaps, m, 1, h)
        later == MetricSum(snaps, m, h + 1, n)
    IN  IF earlier = 0 THEN c.num = 0
        ELSE c.num * (Abs(earlier) * (n - h))
                = (later * h - earlier * (n - h)) * 100 * c.den

(* C28: with fewer than 7 snapshots no trend is produced; with 7 or more,   *)
(* every tracked metric gets a trend whose change_percent compares the mean *)
(* of the later half with the mean of the earlier half and whose direction  *)
(* is stable iff |change_percent| < 5, max_drawdown included, and otherwise *)
(* improving for a positive and declining for a negative change, the two    *)
(* swapped for max_drawdown only.                                           *)
C28_TrendDirection ==
    analyzer.pc = "returned" =>
        IF Len(analyzer.snapshots) < 7
        THEN analyzer.trends = EmptyDict
        ELSE \A m \in {"win_rate", "sharpe_ratio", "max_drawdown", "profit_factor"} :
                /\ m \in DOMAIN analyzer.trends
                /\ LET c == analyzer.trends[m].change_percent
                       dir == analyzer.trends[m].direction
                   IN  /\ c.den > 0
                       /\ ComparesHalves(c, analyzer.snapshots, m)
                       /\ dir = "stable" <=> Abs(c.num) < 5 * c.den
                       /\ dir # "stable" =>
                             (dir = (IF (c.num > 0) = (m # "max_drawdown")
                                     THEN "improving" ELSE "declining"))

\* seven snapshots whose later half is exactly 5% above the earlier half:
\* not stable, improving for the win rate and declining for the drawdown
C28_Witness ==
    /\ analyzer.pc = "returned"
    /\ Len(analyzer.snapshots) = 7
    /\ analyzer.trends["win_rate"].change_percent.num
          = 5 * analyzer.trends["win_rate"].change_percent.den
    /\ analyzer.trends["win_rate"].direction = "improving"
    /\ analyzer.trends["max_drawdown"].direction = "declining"

\* the name under which Identify reads the metric the Analyzer calls m
IdentifyName(m) == IF m = "win_rate" THEN "win_rate_7d" ELSE m

\* the recommendations Identify makes on the metrics the Analyzer was given
IdentifyOn(metrics) ==
    Recommendations(Profile(metrics.win_rate, metrics.max_drawdown,
                            metrics.model_accuracy, metrics.sharpe_ratio,
                            <<>>, None))

(* C29: for each of win_rate, max_drawdown, model_accuracy and sharpe_ratio *)
(* the Analyzer has raised a critical (warning) alert for the metric        *)
(* exactly when Identify, on the same metrics, makes a CRITICAL (WARNING)   *)
(* recommendation for it.                                                   *)
C29_AlertsMatchIdentify ==
    analyzer.pc = "returned" =>
        \A m \in {"win_rate", "max_drawdown", "model_accuracy", "sharpe_ratio"} :
            \A sev \in {<<"critical", "CRITICAL">>, <<"warning", "WARNING">>} :
                (\E i \in 1..Len(analyzer.alerts) :
                    /\ analyzer.alerts[i].metric = m
                    /\ analyzer.alerts[i].severity = sev[1])
                <=> RecsAbout(IdentifyOn(analyzer.metrics),
                              IdentifyName(m), sev[2]) # {}

\* the five categories of optimization
Categories ==
    {"hyperparameters", "model", "features", "risk_params", "strategy_weights"}

\* the positions in actions_taken of the invocations stored under category c
InvocationsOf(acts, c) == {i \in 1..Len(acts) : acts[i].routine = c}

(* C30: after a successful Optimize the optimizations mapping has an entry  *)
(* for exactly the categories that were invoked, each holding the result of *)
(* the last invocation for the category; actions_taken has one entry per    *)
(* invocation, in the order of the recommendations that caused them; and    *)
(* the backtest was called exactly once, after all the routines.  A failed  *)
(* Optimize has called the backtest at most once.                           *)
C30_OptimizationsKeyedByCategory ==
    \A r \in Runs :
        Len(cycles[r].results) >= 3 =>
            LET res == cycles[r].results[3]
                acts == res.actions_taken
                calls == cycles[r].optimize_calls
                Caused(rec) == Routine(rec) # "none"
                causes == SelectSeq(cycles[r].results[2].recommendations, Caused)
                Backtest(c) == c = "backtest"
            IN  IF res.success
                THEN /\ DOMAIN res.optimizations \subseteq Categories
                     /\ \A c \in Categories :
                           IF InvocationsOf(acts, c) = {}
                           THEN c \notin DOMAIN res.optimizations
                           ELSE /\ c \in DOMAIN res.optimizations
                                /\ \E i \in InvocationsOf(acts, c) :
                                      /\ res.optimizations[c] = acts[i].result
                                      /\ \A j \in InvocationsOf(acts, c) : j <= i
                     /\ Len(acts) = Len(causes)
                     /\ \A i \in 1..Len(acts) :
                           /\ acts[i].routine = Routine(causes[i])
                           /\ \A j \in 1..Len(acts) :
                                 acts[i].result = acts[j].result => i = j
                     /\ Len(calls) = Len(acts) + 1
                     /\ \A i \in 1..Len(acts) : calls[i] = acts[i].routine
                     /\ calls[Len(calls)] = "backtest"
                ELSE Len(SelectSeq(calls, Backtest)) <= 1

\* Optimize has succeeded after invoking the strategy-weight routine twice,
\* for the win-rate warning and for the Sharpe warning, and keeps the second
\* result
C30_Witness ==
    /\ Len(cycles[1].results) = 3
    /\ cycles[1].results[3].success
    /\ Cardinality(InvocationsOf(cycles[1].results[3].actions_taken,
                                 "strategy_weights")) = 2
    /\ cycles[1].results[3].optimizations["strategy_weights"] = 2

\* a task object without its priority
PriorityBlind(o) == [f \in (DOMAIN o) \ {"priority"} |-> o[f]]

\* the tasks of the registry, in insertion order, that are enabled, not
\* running and due, read from the task objects without their priorities
BlindOrder ==
    LET view == [t \in TaskIds |-> PriorityBlind(task[t])]
        IsDue(t) ==
            /\ view[t]["enabled"]
            /\ view[t]["status"] /= RUNNING
            /\ view[t]["next_run_at"] /= None
            /\ view[t]["next_run_at"] <= now
    IN  SelectSeq(tasks, IsDue)

\* C31: the tasks a poll scan dispatches, and the order in which it
\* dispatches them, are those of the registry's insertion order among the
\* enabled, not running, due tasks: a function of the state without the
\* priorities, so that changing only the priorities changes neither; and no
\* step changes a priority.
C31_DispatchOrderIgnoresPriority ==
    [][/\ ScanStep => last'.order = BlindOrder
       /\ \A t \in TaskIds : task'[t].priority = task[t].priority]_vars

\* a scan has dispatched two tasks, the one of lower priority first
C31_Witness ==
    /\ last.op = "scan"
    /\ Len(last.order) = 2
    /\ task[last.order[1]].priority < task[last.order[2]].priority

\* the positions of an _execute_task coroutine in the order of the code, the
\* end of the coroutine last
PositionRank(p) ==
    CASE p = "created" -> 0
      [] p = "n_started" -> 1
      [] p = "handler" -> 2
      [] p = "n_completed" -> 3
      [] p = "n_failed" -> 4
      [] p = "n_disabled" -> 5
      [] p = "end" -> 6

\* the step just taken was a step of an execution of t
ExecutionStep(t) ==
    /\ last'.t = t
    /\ last'.op \in {"exec_start", "handler_call", "exec_abort", "exec_success",
                     "exec_failure", "exec_disable", "exec_end", "exec_raise"}

\* the step took one coroutine of t from position p to position q
Advanced(t, p, q) ==
    execs' = IF q = "end" THEN Finish(t, p) ELSE Move(t, p, q)

\* the outcome fields of a task object
Outcome(o) == <<o.last_result, o.last_error, o.consecutive_failures, o.enabled>>

\* C32: every step of an execution takes one coroutine of the task from one
\* position to a later one: status = running and last_run_at are written as it
\* leaves the start, "task started" is emitted before the handler is looked up
\* and called, the outcome is written after that and before "task completed" or
\* "task failed" is emitted, "task disabled" is emitted only after "task
\* failed", and the persist is made in the step that ends the coroutine and
\* in no other.
C32_StepsInSequence ==
    [][\A t \in TaskIds :
          ExecutionStep(t) =>
              \E p \in ExecPCs, q \in (ExecPCs \cup {"end"}) \ {"created"} :
                  /\ execs[t][p] > 0
                  /\ PositionRank(p) < PositionRank(q)
                  /\ Advanced(t, p, q)
                  /\ (p = "created") =>
                        /\ task'[t].last_run_at = now
                        /\ last'.op /= "exec_failure" =>
                              /\ task'[t].status = RUNNING
                              /\ Outcome(task'[t]) = Outcome(task[t])
                  /\ (p = "n_started" /\ q \in {"handler", "end"}) => task' = task
                  /\ (q = "n_completed" \/ last'.op = "exec_success") =>
                        /\ p = "handler"
                        /\ q = (IF discord THEN "n_completed" ELSE "end")
                        /\ task'[t].status = COMPLETED
                        /\ task'[t].consecutive_failures = 0
                  /\ (q = "n_failed" \/ last'.op = "exec_failure") =>
                        /\ p \in {"created", "n_started", "handler", "n_completed"}
                        /\ (p = "created") => ~discord /\ ~HasHandler(t)
                        /\ (p = "n_started") => ~HasHandler(t)
                        /\ q = (IF discord THEN "n_failed" ELSE "end")
                        /\ task'[t].status = FAILED
                        /\ task'[t].consecutive_failures =
                              task[t].consecutive_failures + 1
                  /\ (q = "n_disabled") =>
                        /\ p = "n_failed"
                        /\ ~task'[t].enabled
                  /\ (p \in {"n_completed", "n_failed", "n_disabled"} /\ q = "end") =>
                        task' = task
                  /\ last'.emit = (IF ~discord THEN "none"
                                   ELSE CASE q = "n_started" -> "task_started"
                                          [] q = "n_completed" -> "task_completed"
                                          [] q = "n_failed" -> "task_failed"
                                          [] q = "n_disabled" -> "task_disabled"
                                          [] OTHER -> "none")
                  /\ (last'.persist = t) <=> (q = "end" /\ p /= "n_started")
                  /\ last'.persist \in {0, t}]_vars

\* an execution has ended with its persist after the task was disabled and
\* "task disabled" was emitted
C32_Witness ==
    \E t \in TaskIds :
        /\ discord
        /\ last.op = "exec_end"
        /\ last.t = t
        /\ last.persist = t
        /\ ~task[t].enabled
        /\ disabled_calls[t] = 1
        /\ InFlight(t) = 0

\* the fields of a task object that describe the task
Description(o) ==
    <<o.task_id, o.task_type, o.component_id, o.frequency, o.priority, o.config>>

\* the config the caller constructed task t with
SuppliedConfig(t) == CallerTask(t, "daily", 0, TRUE, DefaultPriority).config

\* the step just taken called the handler with the task object of t
HandlerCalled(t) == execs'[t]["handler"] > execs[t]["handler"]

\* C33: no step changes the task_id, task_type, component_id, frequency,
\* priority or config of a task, and when the handler is called the task it
\* is given has the config the caller supplied.
C33_DescriptionUnchanged ==
    [][\A t \in TaskIds :
          /\ Description(task'[t]) = Description(task[t])
          /\ HandlerCalled(t) => task'[t].config = SuppliedConfig(t)]_vars

\* a task was added, polled by a started engine, executed to a result and
\* removed, and the engine stopped
C33_Witness ==
    \E t \in TaskIds :
        /\ added_at[t] /= None
        /\ ~InRegistry(t)
        /\ task[t].last_result = "result"
        /\ task[t].config = SuppliedConfig(t)
        /\ dispatched[t] > 0
        /\ InFlight(t) = 0
        /\ ~running
        /\ last.op = "remove"

\* the keyword tests of Optimize in their fixed order, and the category of
\* the routine each one invokes
KeywordChain ==
    <<{"hyperparameter"}, {"model retraining"}, {"feature"},
      {"risk", "drawdown"}, {"strategy weight"}>>

ChainCategory ==
    <<"hyperparameters", "model", "features", "risk_params", "strategy_weights">>

\* the tests a recommendation's text passes
Matching(rec) ==
    {i \in 1..Len(KeywordChain) : KeywordChain[i] \cap Keywords(rec) /= {}}

FirstMatch(rec) ==
    CHOOSE i \in Matching(rec) : \A j \in Matching(rec) : i <= j

\* C34: the routines Optimize invokes are, in the order of the
\* recommendations, one for every recommendation whose text holds a keyword,
\* the routine of the first test it passes in the order hyperparameter, model
\* retraining, feature, risk or drawdown, strategy weight, and none for a
\* recommendation without a keyword; actions_taken has one entry for each
\* and so never more entries than there are recommendations.
C34_OneRoutinePerRecommendation ==
    \A r \in Runs :
        Len(cycles[r].results) >= 3 =>
            LET recs == cycles[r].results[2].recommendations
                res == cycles[r].results[3]
                HasMatch(rec) == Matching(rec) /= {}
                hits == SelectSeq(recs, HasMatch)
                calls == SelectSeq(cycles[r].optimize_calls,
                                   LAMBDA c : c /= "backtest")
            IN  /\ Len(calls) <= Len(hits)
                /\ \A i \in 1..Len(calls) :
                      calls[i] = ChainCategory[FirstMatch(hits[i])]
                /\ Len(res.actions_taken) <= Len(recs)
                /\ res.success =>
                      /\ Len(calls) = Len(hits)
                      /\ Len(res.actions_taken) = Len(hits)
                      /\ \A i \in 1..Len(hits) :
                            res.actions_taken[i].routine = calls[i]

\* Optimize has succeeded on a recommendation that holds two keywords and
\* one that holds none
C34_Witness ==
    \E r \in Runs :
        /\ Len(cycles[r].results) >= 3
        /\ cycles[r].results[3].success
        /\ LET recs == cycles[r].results[2].recommendations
           IN  /\ \E i \in 1..Len(recs) : Cardinality(Matching(recs[i])) = 2
               /\ \E i \in 1..Len(recs) : Matching(recs[i]) = {}
               /\ Len(cycles[r].results[3].actions_taken) < Len(recs)

\* C35: the status of a task changes only from pending, completed or failed
\* to running, and from running to completed or failed.
C35_StatusStateMachine ==
    [][\A t \in TaskIds :
          task'[t].status /= task[t].status =>
              \/ /\ task[t].status \in {PENDING, COMPLETED, FAILED}
                 /\ task'[t].status = RUNNING
              \/ /\ task[t].status = RUNNING
                 /\ task'[t].status \in {COMPLETED, FAILED}]_vars

\* the start() coroutines that have not left their loop
ActiveLoops == {l \in Loops : loops[l] \in {"notify", "sleep", "ready"}}

\* C36: at most one start() coroutine is in its poll loop.
C36_AtMostOneLoop == Cardinality(ActiveLoops) <= 1

\* no _execute_task coroutine exists: none created and not started, none
\* between its start and its end
NoExecution == \A t \in TaskIds : execs[t] = [p \in ExecPCs |-> 0]

\* C37: whenever no execution is in flight, the tasks with a persisted
\* record (upserted and not deleted since) are the tasks of the registry.
C37_RegistryMatchesPersistence ==
    NoExecution => db = {t \in TaskIds : InRegistry(t)}

\* C38: a Deploy that has started the A/B test and has returned its result
\* has either promoted the change to production or rolled it back, not both
\* and not neither; so a result with success = false is returned only after
\* the rollback.
C38_ABTestResolved ==
    \A r \in Runs :
        (Len(cycles[r].results) = 4 /\ Called(r, "ab_test_10")) =>
            /\ Called(r, "production_100") /= Called(r, "rollback")
            /\ ~cycles[r].results[4].success => Called(r, "rollback")

\* the results of a run that executed all four stages
FullCycle(res) ==
    /\ Len(res) = Len(Stages)
    /\ \A i \in 1..Len(Stages) : res[i].step = Stages[i]

\* the i-th group of four results in a history
Block(h, i) == SubSeq(h, 4 * (i - 1) + 1, 4 * i)

\* h is the concatenation of the results of complete cycles, one for each
\* run that has executed its four stages
CompleteCycles(h, c) ==
    /\ Len(h) = 4 * Cardinality({r \in Runs : Len(c[r].results) = 4})
    /\ \A i \in 1..(Len(h) \div 4) :
          /\ FullCycle(Block(h, i))
          /\ \E r \in Runs : c[r].results = Block(h, i)

\* C39: results_history is a concatenation of complete cycles; a step
\* extends it only by appending, in one piece, the four results of the run
\* that has just ended its Deploy stage; only such a run comes to the
\* cycle-complete notification; a run that stops after fewer than four
\* stages leaves results_history as it is.
C39_HistoryOfCompleteCycles ==
    [][/\ CompleteCycles(results_history', cycles')
       /\ results_history' /= results_history =>
             \E r \in Runs :
                 /\ Len(cycles[r].results) = 3
                 /\ FullCycle(cycles'[r].results)
                 /\ results_history' = results_history \o cycles'[r].results
       /\ \A r \in Runs :
             /\ cycles'[r].pc = "notify" => FullCycle(cycles'[r].results)
             /\ (cycles'[r].pc = "returned" /\ cycles[r].pc /= "returned"
                    /\ Len(cycles'[r].results) < 4) =>
                   /\ results_history' = results_history
                   /\ cycles[r].pc \notin {"notify"}]_vars

\* two runs have each stored a complete cycle, the second run first, and a
\* notifier is attached
C39_Witness ==
    /\ discord
    /\ Len(results_history) = 8
    /\ Block(results_history, 1) = cycles[2].results
    /\ Block(results_history, 2) = cycles[1].results
    /\ cycles[1].results /= cycles[2].results

\* C40: when the Deploy stage of a run starts, the Optimize stage of that run
\* has recorded at least one action and at least one optimization.
C40_DeployOnlyAfterOptimization ==
    \A r \in Runs :
        cycles[r].pc = "deploy" =>
            /\ cycles[r].results[3].actions_taken /= <<>>
            /\ DOMAIN cycles[r].results[3].optimizations /= {}

====
